---------------------------- MODULE Spec2Model ----------------------------
(***************************************************************************)
(* A model of the metrics core of `measured`: the counter and the two      *)
(* histogram states, the label-indexed MetricVec (dense array or sparse,   *)
(* lock-guarded map), the histogram timers and the collection into an      *)
(* encoder.                                                                *)
(*                                                                         *)
(* Numbers.  An AtomicU64 is modelled with its width scaled down from 64   *)
(* to U64Bits bits: every fetch_add wraps modulo 2^U64Bits and `as i64`    *)
(* reinterprets the top bit as the sign.  An f64 is modelled by the        *)
(* integers of a scaled-down binary floating point format (F64MantBits    *)
(* fraction bits, F64ExpBits exponent bits) with its infinities and NaN:   *)
(* results are rounded to the nearest representable value, and to_bits /   *)
(* from_bits give the bit pattern.  Fractions are not modelled.            *)
(***************************************************************************)
EXTENDS Integers, Sequences, FiniteSets, TLC

(* ------------------------------ bounds -------------------------------- *)

\* width, in bits, of the model's AtomicU64 (64 in the program)
U64Bits == 5
\* threads that use the single Counter, and calls each of them makes
CounterThreads == 2
MaxCalls == 2
\* largest argument of inc_by in the specification SpecCounter
MaxInc == 2
\* collections of the single Counter
MaxCounterCollects == 2
\* threads that use the MetricVec, and operations each of them starts
VecThreads == 2
VecOps == 2
\* label groups the label space can encode (one more group cannot be encoded)
NumLabels == 2
\* largest argument of MetricVec::inc_by
MaxVecInc == 2
\* collections of the MetricVec
MaxVecCollects == 1
\* mantissa and exponent bits of the model's f64 (52 and 11 in the program)
F64MantBits == 6
F64ExpBits == 4
\* N, the number of thresholds of a histogram (a const generic)
N == 3
\* largest start and factor given to exponential_buckets
MaxStart == 2
MaxFactor == 2
\* threads that observe, observations each of them makes, largest value
HistThreads == 2
HistObs == 1
MaxObs == 4
\* collections of the flat histogram
MaxFlatCollects == 1
\* largest width given to linear_buckets
MaxWidth == 2
\* label groups of the dense HistogramVec
HistLabels == 1
\* operations each thread starts on the lock-wrapped histograms
InnerOps == 1
\* the latest instant the clock reaches
MaxTime == 2
\* collections of the lock-wrapped histograms
MaxInnerCollects == 1
\* observe calls on a histogram built from constructed Thresholds
MaxThOps == 2
\* bytes in a metric name handed to the validators
MaxNameLen == 3
\* suffixes applied to one name, and encode_text calls on it
MaxSuffixes == 2
MaxEncodes == 1
MaxPastN == 1
MaxStOps == 2
\* largest value observed where every operation is followed to its return
MaxLiveObs == 2

(* ------------------------------ numbers ------------------------------- *)

RECURSIVE Pow2(_)
Pow2(n) == IF n = 0 THEN 1 ELSE 2 * Pow2(n - 1)

U64Modulus == Pow2(U64Bits)
U64Max == U64Modulus - 1

\* AtomicU64::fetch_add with the addend ignored: every call adds one
FetchAddOne(old, x) == (old + 1) % U64Modulus

\* AtomicU64::fetch_add: wrapping addition, the value stored afterwards
FetchAdd(old, x) == (old + x) % U64Modulus

\* `v as i64` of a u64: the same bits read as two's complement
AsI64(v) == IF v >= U64Modulus \div 2 THEN v - U64Modulus ELSE v

RECURSIVE Log2(_)
Log2(v) == IF v < 2 THEN 0 ELSE 1 + Log2(v \div 2)

F64Bias == Pow2(F64ExpBits - 1) - 1
F64ExpOnes == Pow2(F64ExpBits) - 1

\* f64 values are the integers they stand for: the finite ones lie strictly
\* between -INFINITY and INFINITY, f64::INFINITY is the first power of two
\* past the largest exponent, and f64::NAN is a value apart
INFINITY == Pow2(F64Bias + 1)
NAN == INFINITY + 1

Abs(v) == IF v < 0 THEN 0 - v ELSE v
Sign(v) == IF v < 0 THEN 0 - 1 ELSE 1

\* the f64 nearest to the exact result v: F64MantBits + 1 significant bits,
\* ties to even, and an infinity past the largest finite value
FRound(v) ==
    IF Abs(v) < Pow2(F64MantBits + 1) THEN v
    ELSE LET unit == Pow2(Log2(Abs(v)) - F64MantBits)
             q == Abs(v) \div unit
             r == Abs(v) % unit
             up == 2 * r > unit \/ (2 * r = unit /\ q % 2 = 1)
             m == (IF up THEN q + 1 ELSE q) * unit
         IN  IF m >= INFINITY THEN Sign(v) * INFINITY ELSE Sign(v) * m

\* x < y, x > y, x <= y, x + y and x * y on f64
FLt(x, y) == x # NAN /\ y # NAN /\ x < y
FGt(x, y) == FLt(y, x)
FLe(x, y) == x # NAN /\ y # NAN /\ x <= y
FAdd(x, y) ==
    IF x = NAN \/ y = NAN THEN NAN
    ELSE IF Abs(x) = INFINITY
         THEN IF y = 0 - x THEN NAN ELSE x
         ELSE IF Abs(y) = INFINITY THEN y ELSE FRound(x + y)
FMul(x, y) ==
    IF x = NAN \/ y = NAN THEN NAN
    ELSE IF Abs(x) = INFINITY \/ Abs(y) = INFINITY
         THEN IF x = 0 \/ y = 0 THEN NAN ELSE Sign(x) * Sign(y) * INFINITY
         ELSE FRound(x * y)

\* f64::powi(n), n >= 0, and `i as f64`
RECURSIVE powi(_, _)
powi(b, n) == IF n = 0 THEN 1 ELSE FMul(powi(b, n - 1), b)
AsF64(i) == FRound(i)

\* f64::to_bits: 0.0 is all zero bits, INFINITY is the all-ones exponent,
\* any other value v = 1.f * 2^e is the biased exponent above the fraction
to_bits(v) ==
    IF v = 0 THEN 0
    ELSE IF v = INFINITY THEN F64ExpOnes * Pow2(F64MantBits)
    ELSE (Log2(v) + F64Bias) * Pow2(F64MantBits)
         + ((v * Pow2(F64MantBits)) \div Pow2(Log2(v)) - Pow2(F64MantBits))

\* f64::from_bits
from_bits(b) ==
    IF b = 0 THEN 0
    ELSE IF b \div Pow2(F64MantBits) = F64ExpOnes THEN INFINITY
    ELSE ((Pow2(F64MantBits) + (b % Pow2(F64MantBits)))
             * Pow2(b \div Pow2(F64MantBits) - F64Bias))
         \div Pow2(F64MantBits)

\* the sum of a sequence of integers
RECURSIVE SeqSum(_)
SeqSum(s) == IF s = <<>> THEN 0 ELSE Head(s) + SeqSum(Tail(s))

\* s is non-decreasing
NonDecreasing(s) == \A i \in 1..Len(s) : \A j \in i..Len(s) : s[i] <= s[j]

(* ------------------------------ state --------------------------------- *)

VARIABLES
    \* Counter = Metric<CounterState>
    count,          \* CounterState.count
    calls_left,     \* calls each thread has still to make
    inc_total,      \* the exact sum of the increments of the returned calls
    counter_enc,    \* the records the encoder received from the Counter
    counter_loads   \* the stored values the collections loaded

counter_vars == <<count, calls_left, inc_total, counter_enc, counter_loads>>

VARIABLES
    \* CounterVec<L> = MetricVec<CounterState, L>
    cardinality,    \* label_set.cardinality(): a number, or None
    vec_kind,       \* the VecInner variant: "Dense" or "Sparse"
    vec_metric,     \* M: "counter" (CounterState) or "histogram"
    dense,          \* VecInner::Dense: slot index -> CounterState.count
    sparse,         \* VecInner::Sparse: the map, label identity -> count
    lock_readers,   \* holders of the map's RwLock read guards
    lock_writer,    \* holder of the map's RwLock write guard, or None
    vpc,            \* where each thread is in inc / inc_by / get_metric
    vid,            \* the LabelId the thread's get_metric was given
    vy,             \* the amount the thread's callback adds
    vops_left,      \* operations each thread has still to start
    vlabel,         \* the label group of the thread's last call
    applied,        \* per label group, the sum of the returned increments
    callbacks,      \* per thread, callbacks run by its current get_metric
    vknown,         \* whether the map held the thread's id when its call began
    vcoll_pc,       \* where the collector is in MetricVec::collect_into
    vcoll_todo,     \* entries the running collection has still to visit
    vcoll_left,     \* collections still to start
    vec_enc         \* the records the encoder received from the MetricVec

vec_vars == <<cardinality, vec_kind, vec_metric, vknown, dense, sparse, lock_readers, lock_writer,
              vpc, vid, vy, vops_left, vlabel, applied, callbacks,
              vcoll_pc, vcoll_todo, vcoll_left, vec_enc>>

VARIABLES
    \* Histogram<N> = Metric<HistogramState<N>> of lib.rs (flat atomics)
    flat_le,        \* Thresholds.le, the metadata
    flat_buckets,   \* HistogramState.buckets
    flat_count,     \* HistogramState.count
    flat_sum,       \* HistogramState.sum: the bits of an f64
    fpc,            \* where each thread is in HistogramRef::observe
    fx,             \* the value the thread observes
    fi,             \* the bucket index of the thread's loop
    fprev,          \* the bits the thread's fetch_update loaded
    fobs_left,      \* observations each thread has still to start
    flat_seen,      \* per value, how many observe calls of it have returned
    fcoll_pc,       \* where the collector is in collect_into
    fcoll_i,        \* the bucket index of the collector's loop
    fcoll_left,     \* collections still to start
    fcoll_quiet,    \* no observe call was made since the last collection began
    flat_enc        \* the records the encoder received from the histogram

flat_vars == <<flat_le, flat_buckets, flat_count, flat_sum, fpc, fx, fi, fprev,
               fobs_left, flat_seen, fcoll_pc, fcoll_i, fcoll_left,
               fcoll_quiet, flat_enc>>

VARIABLES
    \* Histogram<N> and a dense HistogramVec<L, N> of metric/histogram.rs:
    \* histogram 0 is the Histogram, histogram l > 0 the vec's slot of label l
    inner_le,       \* Thresholds.le, the metadata of all of them
    inner_buckets,  \* HistogramStateInner.buckets, per histogram
    inner_inf,      \* HistogramStateInner.inf, per histogram
    inner_sum,      \* HistogramStateInner.sum (the bits of an f64)
    inner_readers,  \* holders of HistogramState.inner's read guards
    inner_writer,   \* whether HistogramState.inner's write guard is held
    ipc,            \* where each thread is in observe
    ih,             \* the histogram the thread observes on
    ix,             \* the value the thread observes
    ibucket,        \* the bucket index partition_point gave the thread
    iprev,          \* the bits the thread's fetch_update loaded
    ifor,           \* what the thread observes for: a call, a timer's drop
    iops_left,      \* operations each thread has still to start
    icall,          \* the thread's last call by label: its name and label
    inner_seen,     \* per histogram and value, the observe calls returned
    timer,          \* per thread, the timer it holds: vec, id, start
    timer_end,      \* how the thread's last timer ended, and its histogram
    timer_obs,      \* per histogram, what the thread's last timer recorded
    now,            \* Instant::now()
    icoll_pc,       \* the histogram whose write guard the collector holds
    icoll_left,     \* collections still to start
    inner_enc       \* the records of the last collection

inner_vars == <<inner_le, inner_buckets, inner_inf, inner_sum, inner_readers,
                inner_writer, ipc, ih, ix, ibucket, iprev, ifor, iops_left, icall,
                inner_seen, timer, timer_end, timer_obs, now, icoll_pc,
                icoll_left, inner_enc>>

VARIABLES
    th_state,       \* "none", "built" or "panicked": the constructor's outcome
    th_call,        \* the constructor called and its arguments
    th_le,          \* Thresholds.le of the value returned
    th_view,        \* what get() returned last
    th_x,           \* the value of the last observe call
    th_via,         \* "ref" or "mut": HistogramRef or HistogramMut
    th_bucket,      \* the index that call passed to the inner observe
    th_assert,      \* whether assert!(bucket <= N) passed
    th_hits,        \* the hit counters: indices 0..N-1, and N for inf
    th_ops          \* observe calls left

th_vars == <<th_state, th_call, th_le, th_view, th_x, th_via, th_bucket,
             th_assert, th_hits, th_ops>>

VARIABLES
    name_state,     \* "none", "ok", "err", "panicked", "namespace_panicked"
    name_via,       \* "try_from" or "from_static"
    name_value,     \* the string handed to the constructor
    name_err,       \* the InvalidMetricName returned, or "none"
    name_wrappers,  \* the WithNamespace / WithSuffix wrappers, inner first
    name_buf,       \* the BytesMut the name is encoded into
    name_buf_before,\* the buffer as the last encode_text call found it
    name_encoded,   \* the wrappers of the name that call encoded
    name_encodes    \* encode_text calls left

name_vars == <<name_state, name_via, name_value, name_err, name_wrappers,
               name_buf, name_buf_before, name_encoded, name_encodes>>

VARIABLES
    \* a HistogramStateInner<N> called directly
    st_buckets,     \* HistogramStateInner.buckets
    st_inf,         \* HistogramStateInner.inf
    st_sum,         \* HistogramStateInner.sum (the bits of an f64)
    st_call,        \* the last call: observe or observe_mut, bucket and x
    st_before,      \* buckets, inf and sum as that call found them
    st_panicked,    \* whether assert!(bucket <= N) failed in that call
    st_ops          \* calls left

st_vars == <<st_buckets, st_inf, st_sum, st_call, st_before, st_panicked,
             st_ops>>

vars == <<counter_vars, vec_vars, flat_vars, inner_vars, th_vars, name_vars,
          st_vars>>

\* what the operations of one component leave alone
outside_counter == <<vec_vars, flat_vars, inner_vars, th_vars,
    name_vars, st_vars>>
outside_vec == <<counter_vars, flat_vars, inner_vars, th_vars,
    name_vars, st_vars>>
outside_flat == <<counter_vars, vec_vars, inner_vars, th_vars,
    name_vars, st_vars>>
outside_inner == <<counter_vars, vec_vars, flat_vars, th_vars,
    name_vars, st_vars>>
outside_th == <<counter_vars, vec_vars, flat_vars, inner_vars,
    name_vars, st_vars>>
outside_name == <<counter_vars, vec_vars, flat_vars, inner_vars, th_vars,
    st_vars>>
outside_st == <<counter_vars, vec_vars, flat_vars, inner_vars, th_vars,
    name_vars>>

CThreads == 1..CounterThreads

(* ------------------------------ Counter ------------------------------- *)

\* Metric::new_metric: CounterState::default()
CounterInit ==
    /\ count = 0
    /\ calls_left = [t \in CThreads |-> MaxCalls]
    /\ inc_total = 0
    /\ counter_enc = <<>>
    /\ counter_loads = <<>>

\* CounterRef::inc
inc(t) ==
    /\ calls_left[t] > 0
    /\ count' = FetchAdd(count, 1)
    /\ inc_total' = inc_total + 1
    /\ calls_left' = [calls_left EXCEPT ![t] = @ - 1]
    /\ UNCHANGED <<counter_enc, counter_loads, outside_counter>>

\* CounterRef::inc_by
inc_by(t, x) ==
    /\ calls_left[t] > 0
    /\ count' = FetchAdd(count, x)
    /\ inc_total' = inc_total + x
    /\ calls_left' = [calls_left EXCEPT ![t] = @ - 1]
    /\ UNCHANGED <<counter_enc, counter_loads, outside_counter>>

\* the value CounterState::collect_into hands to write_metric
CounterValue(stored) == AsI64(stored)

\* Metric::collect_into of the Counter: write_type, then one write_metric
CounterCollect ==
    /\ Len(counter_loads) < MaxCounterCollects
    /\ counter_enc' = counter_enc \o
           << [op |-> "write_type", kind |-> "counter", value |-> 0],
              [op |-> "write_metric", kind |-> "counter",
               value |-> CounterValue(count)] >>
    /\ counter_loads' = Append(counter_loads, count)
    /\ UNCHANGED <<count, calls_left, inc_total, outside_counter>>

CounterIdle == \A t \in CThreads : calls_left[t] = 0

(* ------------------------------ MetricVec ----------------------------- *)

None == 0
VThreads == 1..VecThreads
\* the collector's name as a holder of the read lock
Collector == VecThreads + 1

\* L::Group values: those of the label space, and one outside it
Labels == 1..NumLabels
BadLabel == NumLabels + 1
LabelGroups == Labels \cup {BadLabel}

\* LabelGroupSet::encode: the identity of a group, None for a foreign group
encode(label) == IF label \in Labels THEN label ELSE None

\* LabelGroupSet::encode_dense: the contiguous index of an identity
encode_dense(index) == IF index \in Labels THEN index - 1 ELSE None - 1

\* LabelGroupSet::decode_dense and decode: back to the label group
decode_dense(i) == i + 1
decode(key) == key

\* with_labels handing out the last identity for a foreign group
WithLabelsClamped(label) == IF label \in Labels THEN label ELSE NumLabels

\* MetricVec::with_labels
with_labels(label) == encode(label)

\* new_metric_vec allocating one slot too many
DenseSlotsOffByOne(c) == [i \in 0..c |-> 0]

\* new_metric_vec, Some(c) arm: c default slots
DenseSlots(c) == [i \in 0..(c - 1) |-> 0]

\* new_metric_vec / new_sparse_metric_vec
VecInit ==
    /\ cardinality \in {NumLabels, None}
    /\ \E ctor \in {"new_metric_vec", "new_sparse_metric_vec"} :
         vec_kind = IF ctor = "new_metric_vec" /\ cardinality # None
                    THEN "Dense" ELSE "Sparse"
    /\ vec_metric \in {"counter", "histogram"}
    /\ dense = IF vec_kind = "Dense" THEN DenseSlots(cardinality) ELSE <<>>
    /\ sparse = <<>>
    /\ lock_readers = {}
    /\ lock_writer = None
    /\ vpc = [t \in VThreads |-> "idle"]
    /\ vid = [t \in VThreads |-> None]
    /\ vy = [t \in VThreads |-> 0]
    /\ vops_left = [t \in VThreads |-> VecOps]
    /\ vlabel = [t \in VThreads |-> None]
    /\ applied = [l \in Labels |-> 0]
    /\ callbacks = [t \in VThreads |-> 0]
    /\ vknown = [t \in VThreads |-> FALSE]
    /\ vcoll_pc = "idle"
    /\ vcoll_todo = {}
    /\ vcoll_left = MaxVecCollects
    /\ vec_enc = <<>>

\* MetricVec::inc / inc_by up to the call of get_metric: with_labels(label)
\* .expect(..) panics on None before anything is touched
VecCall(t, label, y) ==
    /\ vec_metric = "counter"
    /\ vpc[t] = "idle"
    /\ vops_left[t] > 0
    /\ vops_left' = [vops_left EXCEPT ![t] = @ - 1]
    /\ vlabel' = [vlabel EXCEPT ![t] = label]
    /\ IF with_labels(label) = None
       THEN /\ vpc' = [vpc EXCEPT ![t] = "panicked"]
            /\ UNCHANGED <<vid, vy, callbacks, vknown>>
       ELSE /\ vpc' = [vpc EXCEPT ![t] = "get"]
            /\ vid' = [vid EXCEPT ![t] = with_labels(label)]
            /\ vy' = [vy EXCEPT ![t] = y]
            /\ callbacks' = [callbacks EXCEPT ![t] = 0]
            /\ vknown' = [vknown EXCEPT
                  ![t] = with_labels(label) \in DOMAIN sparse]
    /\ UNCHANGED <<cardinality, vec_kind, vec_metric, dense, sparse, lock_readers,
                   lock_writer, applied, vcoll_pc, vcoll_todo, vcoll_left,
                   vec_enc,
                   outside_vec>>

\* MetricVec::inc
VecInc(t, label) == VecCall(t, label, 1)

\* MetricVec::inc_by
VecIncBy(t, label, y) == VecCall(t, label, y)

\* MetricVec::get_metric(id, f) called with an identity with_labels gave
\* and a callback that only reads the metric
VecGetMetric(t, id) ==
    /\ vpc[t] = "idle"
    /\ vops_left[t] > 0
    /\ vops_left' = [vops_left EXCEPT ![t] = @ - 1]
    /\ vlabel' = [vlabel EXCEPT ![t] = decode(id)]
    /\ vpc' = [vpc EXCEPT ![t] = "get"]
    /\ vid' = [vid EXCEPT ![t] = id]
    /\ vy' = [vy EXCEPT ![t] = 0]
    /\ callbacks' = [callbacks EXCEPT ![t] = 0]
    /\ vknown' = [vknown EXCEPT ![t] = id \in DOMAIN sparse]
    /\ UNCHANGED <<cardinality, vec_kind, vec_metric, dense, sparse,
                   lock_readers, lock_writer, applied, vcoll_pc, vcoll_todo,
                   vcoll_left, vec_enc, outside_vec>>

\* get_metric, Dense arm: index the slot and run the callback on it
DenseGet(t) ==
    /\ vpc[t] = "get"
    /\ vec_kind = "Dense"
    /\ LET i == encode_dense(vid[t]) IN
         /\ i \in DOMAIN dense
         /\ dense' = [dense EXCEPT ![i] = FetchAdd(@, vy[t])]
    /\ applied' = [applied EXCEPT ![vid[t]] = @ + vy[t]]
    /\ callbacks' = [callbacks EXCEPT ![t] = @ + 1]
    /\ vpc' = [vpc EXCEPT ![t] = "idle"]
    /\ vid' = [vid EXCEPT ![t] = None]
    /\ vy' = [vy EXCEPT ![t] = 0]
    /\ UNCHANGED <<cardinality, vec_kind, vec_metric, vknown, sparse, lock_readers, lock_writer,
                   vops_left, vlabel, vcoll_pc, vcoll_todo, vcoll_left,
                   vec_enc,
                   outside_vec>>

\* a lookup that finds nothing
GetNone(map, index) == FALSE

\* HashMap::get(&index): whether it returns Some
get(map, index) == index \in DOMAIN map

\* get_metric, Sparse arm: metrics.read().unwrap().get(&index); the guard
\* lives on through the callback on a hit and is dropped on a miss
SparseLookup(t) ==
    /\ vpc[t] = "get"
    /\ vec_kind = "Sparse"
    /\ lock_writer = None
    /\ IF get(sparse, vid[t])
       THEN /\ lock_readers' = lock_readers \cup {t}
            /\ vpc' = [vpc EXCEPT ![t] = "hit"]
       ELSE /\ vpc' = [vpc EXCEPT ![t] = "miss"]
            /\ UNCHANGED lock_readers
    /\ UNCHANGED <<cardinality, vec_kind, vec_metric, vknown, dense, sparse, lock_writer, vid, vy,
                   vops_left, vlabel, applied, callbacks, vcoll_pc, vcoll_todo,
                   vcoll_left, vec_enc,
                   outside_vec>>

\* f(MetricRef(m, ..)) under the read guard, which is dropped on return
SparseCallback(t) ==
    /\ vpc[t] \in {"hit", "found"}
    /\ t \in lock_readers
    /\ sparse' = [sparse EXCEPT ![vid[t]] = FetchAdd(@, vy[t])]
    /\ applied' = [applied EXCEPT ![vid[t]] = @ + vy[t]]
    /\ callbacks' = [callbacks EXCEPT ![t] = @ + 1]
    /\ lock_readers' = lock_readers \ {t}
    /\ vpc' = [vpc EXCEPT ![t] = "idle"]
    /\ vid' = [vid EXCEPT ![t] = None]
    /\ vy' = [vy EXCEPT ![t] = 0]
    /\ UNCHANGED <<cardinality, vec_kind, vec_metric, vknown, dense, lock_writer,
                   vops_left, vlabel, vcoll_pc, vcoll_todo, vcoll_left, vec_enc,
                   outside_vec>>

\* metrics.write().unwrap(): the exclusive lock
SparseWrite(t) ==
    /\ vpc[t] = "miss"
    /\ lock_readers = {}
    /\ lock_writer = None
    /\ lock_writer' = t
    /\ vpc' = [vpc EXCEPT ![t] = "insert"]
    /\ UNCHANGED <<cardinality, vec_kind, vec_metric, vknown, dense, sparse, lock_readers, vid, vy,
                   vops_left, vlabel, applied, callbacks, vcoll_pc, vcoll_todo,
                   vcoll_left, vec_enc,
                   outside_vec>>

\* an insert that overwrites the entry already there
InsertDefault(map, index) ==
    [k \in DOMAIN map \cup {index} |-> IF k = index THEN 0 ELSE map[k]]

\* an insert that rebuilds the map around the new entry
FreshMapWith(map, index) == [k \in {index} |-> 0]

\* an insert that leaves the map as it is
InsertNothing(map, index) == map

\* an insert that resets every entry of the map
InsertAndClear(map, index) == [k \in DOMAIN map \cup {index} |-> 0]

\* entry(index).or_default(): a default entry only where there is none
or_default(map, index) ==
    IF index \in DOMAIN map
    THEN map
    ELSE [k \in DOMAIN map \cup {index} |-> IF k = index THEN 0 ELSE map[k]]

\* the insert under the write guard, which is dropped with the statement
SparseInsert(t) ==
    /\ vpc[t] = "insert"
    /\ lock_writer = t
    /\ sparse' = or_default(sparse, vid[t])
    /\ lock_writer' = None
    /\ vpc' = [vpc EXCEPT ![t] = "reread"]
    /\ UNCHANGED <<cardinality, vec_kind, vec_metric, vknown, dense, lock_readers, vid, vy,
                   vops_left, vlabel, applied, callbacks, vcoll_pc, vcoll_todo,
                   vcoll_left, vec_enc,
                   outside_vec>>

\* metrics.read().unwrap() again and read.get(&index).unwrap()
SparseReread(t) ==
    /\ vpc[t] = "reread"
    /\ lock_writer = None
    /\ IF get(sparse, vid[t])
       THEN /\ lock_readers' = lock_readers \cup {t}
            /\ vpc' = [vpc EXCEPT ![t] = "found"]
       ELSE /\ vpc' = [vpc EXCEPT ![t] = "unwrap_failed"]
            /\ UNCHANGED lock_readers
    /\ UNCHANGED <<cardinality, vec_kind, vec_metric, vknown, dense, sparse, lock_writer, vid, vy,
                   vops_left, vlabel, applied, callbacks, vcoll_pc, vcoll_todo,
                   vcoll_left, vec_enc,
                   outside_vec>>

\* an iterator that yields nothing
IterNothing(m) == {}

\* m.iter().enumerate() and the iteration over &*m.read().unwrap(): the
\* indices, or keys, of the entries the walk visits
Iter(m) == DOMAIN m

\* MetricVec::collect_into: M::write_type once, then the walk begins; the
\* Sparse arm takes the read lock for the whole walk
VecCollectBegin ==
    /\ vcoll_pc = "idle"
    /\ vcoll_left > 0
    /\ vcoll_left' = vcoll_left - 1
    /\ vec_enc' = Append(vec_enc,
           [op |-> "write_type", kind |-> vec_metric, label |-> None,
            value |-> 0])
    /\ IF vec_kind = "Dense"
       THEN /\ vcoll_todo' = Iter(dense)
            /\ UNCHANGED lock_readers
       ELSE /\ lock_writer = None
            /\ lock_readers' = lock_readers \cup {Collector}
            /\ vcoll_todo' = Iter(sparse)
    /\ vcoll_pc' = "walk"
    /\ UNCHANGED <<cardinality, vec_kind, vec_metric, vknown, dense, sparse, lock_writer, vpc, vid,
                   vy, vops_left, vlabel, applied, callbacks,
                   outside_vec>>

\* what the encoder is handed by one call of a histogram's collection
FlatRecord(op, suffix, le, value) ==
    [op |-> op, suffix |-> suffix, le |-> le, value |-> value]

\* HistogramState::collect_into of lib.rs on a state no observation has
\* reached: a bucket record per threshold, then the sum and the count
DefaultHistogramRecords ==
    [i \in 1..N |-> FlatRecord("write_metric", "_bucket", flat_le[i], AsI64(0))]
    \o << FlatRecord("write_metric", "_sum", None, from_bits(to_bits(0))),
          FlatRecord("write_metric", "_count", None, AsI64(0)) >>

\* what value.collect_into(metadata, labels, name, enc) writes for the
\* entry k: one record of a counter, the records of a histogram
EntryRecords(k) ==
    LET label == IF vec_kind = "Dense" THEN decode_dense(k) ELSE decode(k)
        stored == IF vec_kind = "Dense" THEN dense[k] ELSE sparse[k]
    IN  IF vec_metric = "counter"
        THEN << [op |-> "write_metric", kind |-> "counter", label |-> label,
                 value |-> CounterValue(stored)] >>
        ELSE [i \in 1..(N + 2) |->
                 [op |-> "write_metric", kind |-> "histogram",
                  label |-> label, value |-> DefaultHistogramRecords[i]]]

\* one value.collect_into(..) of the walk: a dense slot in index order, a
\* map entry in the map's own order
VecCollectEntry ==
    /\ vcoll_pc = "walk"
    /\ vcoll_todo # {}
    /\ \E k \in vcoll_todo :
         /\ vec_kind = "Dense" => \A j \in vcoll_todo : k <= j
         /\ vcoll_todo' = vcoll_todo \ {k}
         /\ vec_enc' = vec_enc \o EntryRecords(k)
    /\ UNCHANGED <<cardinality, vec_kind, vec_metric, vknown, dense, sparse, lock_readers,
                   lock_writer, vpc, vid, vy, vops_left, vlabel, applied, callbacks,
                   vcoll_pc, vcoll_left,
                   outside_vec>>

\* the walk is over: the Sparse arm's read guard is dropped
VecCollectEnd ==
    /\ vcoll_pc = "walk"
    /\ vcoll_todo = {}
    /\ vcoll_pc' = "idle"
    /\ lock_readers' = lock_readers \ {Collector}
    /\ UNCHANGED <<cardinality, vec_kind, vec_metric, vknown, dense, sparse, lock_writer, vpc, vid,
                   vy, vops_left, vlabel, applied, callbacks, vcoll_todo, vcoll_left,
                   vec_enc,
                   outside_vec>>

VecIdle == \A t \in VThreads : vpc[t] \in {"idle", "panicked"} /\ vops_left[t] = 0

VecNext ==
    \/ \E t \in VThreads : \E label \in LabelGroups : VecInc(t, label)
    \/ \E t \in VThreads : \E label \in LabelGroups :
           \E y \in 0..MaxVecInc : VecIncBy(t, label, y)
    \/ \E t \in VThreads : DenseGet(t)
    \/ \E t \in VThreads : SparseLookup(t)
    \/ \E t \in VThreads : SparseCallback(t)
    \/ \E t \in VThreads : SparseWrite(t)
    \/ \E t \in VThreads : SparseInsert(t)
    \/ \E t \in VThreads : SparseReread(t)
    \/ VecCollectBegin
    \/ VecCollectEntry
    \/ VecCollectEnd

(* ---------------------- HistogramState of lib.rs --------------------- *)

HThreads == 1..HistThreads
\* the values observed: the finite ones and f64::INFINITY
Observations == (0..MaxObs) \cup {INFINITY}

\* `let x = next; next *= factor; x` of the i-th call of the closure
RECURSIVE NextBucket(_, _, _)
NextBucket(start, factor, i) ==
    IF i = 1 THEN start ELSE FMul(NextBucket(start, factor, i - 1), factor)

\* Thresholds::exponential_buckets of lib.rs, for start > 0 and factor > 1:
\* start, start * factor, ..., and INFINITY in the last place
exponential_buckets_inf(start, factor) ==
    [i \in 1..N |-> IF i = N THEN INFINITY
                    ELSE NextBucket(start, factor, i)]

\* Metric::new_metric(metadata): HistogramState::default()
FlatInit ==
    /\ \E start \in 1..MaxStart : \E factor \in 2..MaxFactor :
           flat_le = exponential_buckets_inf(start, factor)
    /\ flat_buckets = [i \in 1..N |-> 0]
    /\ flat_count = 0
    /\ flat_sum = to_bits(0)
    /\ fpc = [t \in HThreads |-> "idle"]
    /\ fx = [t \in HThreads |-> 0]
    /\ fi = [t \in HThreads |-> 0]
    /\ fprev = [t \in HThreads |-> 0]
    /\ fobs_left = [t \in HThreads |-> HistObs]
    /\ flat_seen = [v \in Observations |-> 0]
    /\ fcoll_pc = "idle"
    /\ fcoll_i = 0
    /\ fcoll_left = MaxFlatCollects
    /\ fcoll_quiet = TRUE
    /\ flat_enc = <<>>

\* `x <= le[i]`, the comparison of the exposition format
FlatHits(x, le) == FLe(x, le)

\* `if x < self.1.le[i]`: the observation counts for bucket i
FlatCounts(x, le) == FLt(x, le)

\* the first index >= i whose bucket counts x; N + 1 after the loop
FlatNextIndex(x, i) ==
    IF \E j \in i..N : FlatCounts(x, flat_le[j])
    THEN CHOOSE j \in i..N :
             /\ FlatCounts(x, flat_le[j])
             /\ \A k \in i..(j - 1) : ~FlatCounts(x, flat_le[k])
    ELSE N + 1

\* HistogramRef::observe of lib.rs is called
FlatObserve(t, x) ==
    /\ fpc[t] = "idle"
    /\ fobs_left[t] > 0
    /\ fobs_left' = [fobs_left EXCEPT ![t] = @ - 1]
    /\ fx' = [fx EXCEPT ![t] = x]
    /\ fi' = [fi EXCEPT ![t] = FlatNextIndex(x, 1)]
    /\ fpc' = [fpc EXCEPT ![t] = "buckets"]
    /\ fcoll_quiet' = FALSE
    /\ UNCHANGED <<flat_le, flat_buckets, flat_count, flat_sum, fprev,
                   flat_seen, fcoll_pc, fcoll_i, fcoll_left, flat_enc,
                   outside_flat>>

\* one buckets[i].fetch_add(1) of the loop over 0..N
FlatObserveBucket(t) ==
    /\ fpc[t] = "buckets"
    /\ fi[t] <= N
    /\ flat_buckets' = [flat_buckets EXCEPT ![fi[t]] = FetchAdd(@, 1)]
    /\ fi' = [fi EXCEPT ![t] = FlatNextIndex(fx[t], fi[t] + 1)]
    /\ UNCHANGED <<flat_le, flat_count, flat_sum, fpc, fx, fprev, fobs_left,
                   flat_seen, fcoll_pc, fcoll_i, fcoll_left, fcoll_quiet,
                   flat_enc, outside_flat>>

\* count.fetch_add(1)
FlatObserveCount(t) ==
    /\ fpc[t] = "buckets"
    /\ fi[t] > N
    /\ flat_count' = FetchAdd(flat_count, 1)
    /\ fpc' = [fpc EXCEPT ![t] = "load"]
    /\ UNCHANGED <<flat_le, flat_buckets, flat_sum, fx, fi, fprev, fobs_left,
                   flat_seen, fcoll_pc, fcoll_i, fcoll_left, fcoll_quiet,
                   flat_enc, outside_flat>>

\* fetch_update: the load that starts the loop
FlatSumLoad(t) ==
    /\ fpc[t] = "load"
    /\ fprev' = [fprev EXCEPT ![t] = flat_sum]
    /\ fpc' = [fpc EXCEPT ![t] = "cas"]
    /\ UNCHANGED <<flat_le, flat_buckets, flat_count, flat_sum, fx, fi,
                   fobs_left, flat_seen, fcoll_pc, fcoll_i, fcoll_left,
                   fcoll_quiet, flat_enc, outside_flat>>

\* a sum update that adds the bit patterns as integers
SumUpdateOnBits(y, x) == y + to_bits(x)

\* the closure of fetch_update: |y| f64::to_bits(f64::from_bits(y) + x)
SumUpdate(y, x) == to_bits(FAdd(from_bits(y), x))

\* a compare-exchange that never succeeds
CompareNever(current, expected) == FALSE

\* a compare-exchange that stores whatever the cell holds
CompareAlways(current, expected) == TRUE

\* compare_exchange succeeds when the cell still holds the loaded bits
CompareExchangeOk(current, expected) == current = expected

\* fetch_update: the compare-exchange; a failure reloads and tries again
FlatSumCas(t) ==
    /\ fpc[t] = "cas"
    /\ IF CompareExchangeOk(flat_sum, fprev[t])
       THEN /\ flat_sum' = SumUpdate(fprev[t], fx[t])
            /\ flat_seen' = [flat_seen EXCEPT ![fx[t]] = @ + 1]
            /\ fpc' = [fpc EXCEPT ![t] = "idle"]
            /\ fprev' = [fprev EXCEPT ![t] = 0]
            /\ fx' = [fx EXCEPT ![t] = 0]
            /\ fi' = [fi EXCEPT ![t] = 0]
       ELSE /\ fprev' = [fprev EXCEPT ![t] = flat_sum]
            /\ UNCHANGED <<flat_sum, flat_seen, fpc, fx, fi>>
    /\ UNCHANGED <<flat_le, flat_buckets, flat_count, fobs_left, fcoll_pc,
                   fcoll_i, fcoll_left, fcoll_quiet, flat_enc, outside_flat>>

\* Metric::collect_into: M::write_type(&name, enc)
FlatCollectBegin ==
    /\ fcoll_pc = "idle"
    /\ fcoll_left > 0
    /\ fcoll_left' = fcoll_left - 1
    /\ flat_enc' = <<FlatRecord("write_type", "", None, 0)>>
    /\ fcoll_quiet' = \A t \in HThreads : fpc[t] = "idle"
    /\ fcoll_i' = 1
    /\ fcoll_pc' = "buckets"
    /\ UNCHANGED <<flat_le, flat_buckets, flat_count, flat_sum, fpc, fx, fi,
                   fprev, fobs_left, flat_seen, outside_flat>>

\* HistogramState::collect_into: one bucket record, le = metadata.le[i]
FlatCollectBucket ==
    /\ fcoll_pc = "buckets"
    /\ fcoll_i <= N
    /\ flat_enc' = Append(flat_enc,
           FlatRecord("write_metric", "_bucket", flat_le[fcoll_i],
                      AsI64(flat_buckets[fcoll_i])))
    /\ fcoll_i' = fcoll_i + 1
    /\ UNCHANGED <<flat_le, flat_buckets, flat_count, flat_sum, fpc, fx, fi,
                   fprev, fobs_left, flat_seen, fcoll_pc, fcoll_left,
                   fcoll_quiet, outside_flat>>

\* HistogramState::collect_into: the sum record
FlatCollectSum ==
    /\ fcoll_pc = "buckets"
    /\ fcoll_i > N
    /\ flat_enc' = Append(flat_enc,
           FlatRecord("write_metric", "_sum", None, from_bits(flat_sum)))
    /\ fcoll_pc' = "count"
    /\ UNCHANGED <<flat_le, flat_buckets, flat_count, flat_sum, fpc, fx, fi,
                   fprev, fobs_left, flat_seen, fcoll_i, fcoll_left,
                   fcoll_quiet, outside_flat>>

\* HistogramState::collect_into: the count record
FlatCollectCount ==
    /\ fcoll_pc = "count"
    /\ flat_enc' = Append(flat_enc,
           FlatRecord("write_metric", "_count", None, AsI64(flat_count)))
    /\ fcoll_pc' = "idle"
    /\ fcoll_i' = 0
    /\ UNCHANGED <<flat_le, flat_buckets, flat_count, flat_sum, fpc, fx, fi,
                   fprev, fobs_left, flat_seen, fcoll_left, fcoll_quiet,
                   outside_flat>>

FlatNext ==
    \/ \E t \in HThreads : \E x \in Observations : FlatObserve(t, x)
    \/ \E t \in HThreads : FlatObserveBucket(t)
    \/ \E t \in HThreads : FlatObserveCount(t)
    \/ \E t \in HThreads : FlatSumLoad(t)
    \/ \E t \in HThreads : FlatSumCas(t)
    \/ FlatCollectBegin
    \/ FlatCollectBucket
    \/ FlatCollectSum
    \/ FlatCollectCount

\* how many returned observations are <= le, how many there are, and
\* their sum
FlatSeenAtMost(le) ==
    SeqSum([i \in 1..(MaxObs + 1) |->
                IF FlatHits(i - 1, le) THEN flat_seen[i - 1] ELSE 0])
    + (IF FlatHits(INFINITY, le) THEN flat_seen[INFINITY] ELSE 0)
FlatSeenTotal ==
    SeqSum([i \in 1..(MaxObs + 1) |-> flat_seen[i - 1]]) + flat_seen[INFINITY]
FlatSeenSum ==
    IF flat_seen[INFINITY] > 0 THEN INFINITY
    ELSE SeqSum([i \in 1..(MaxObs + 1) |-> (i - 1) * flat_seen[i - 1]])

\* a collection has run to its end, and it began after the last observe
\* call had returned
FlatCollected ==
    /\ fcoll_pc = "idle"
    /\ Len(flat_enc) = N + 3
    /\ fcoll_quiet
    /\ \A t \in HThreads : fpc[t] = "idle"

(* ----------------- HistogramState of metric/histogram.rs ------------- *)

Hists == 0..HistLabels
HistBadLabel == HistLabels + 1
InnerFinite == 0..(IF MaxObs > MaxTime THEN MaxObs ELSE MaxTime)
InnerValues == InnerFinite \cup {INFINITY}

\* Thresholds::exponential_buckets, for start > 0 and factor > 1
exponential_buckets(start, factor) ==
    [i \in 1..N |-> FMul(start, powi(factor, i - 1))]

\* Thresholds::linear_buckets, for width > 0
linear_buckets(start, width) ==
    [i \in 1..N |-> FAdd(start, FMul(width, AsF64(i - 1)))]

\* slice::partition_point(pred) on le[lo + 1 .. hi], pred being `x > *le`:
\* a binary search for the first threshold that x does not exceed
RECURSIVE PartitionFrom(_, _, _, _)
PartitionFrom(le, x, lo, hi) ==
    IF lo >= hi THEN lo
    ELSE LET mid == lo + (hi - lo) \div 2 IN
         IF FGt(x, le[mid + 1])
         THEN PartitionFrom(le, x, mid + 1, hi)
         ELSE PartitionFrom(le, x, lo, mid)

\* self.1.le.partition_point(|le| x > *le): an index in 0..N
partition_point(le, x) == PartitionFrom(le, x, 0, Len(le))

\* HistogramState::default(): all counters and the sum's bits are ZERO
InnerInit ==
    /\ \/ \E start \in 1..MaxStart : \E factor \in 2..MaxFactor :
              inner_le = exponential_buckets(start, factor)
       \/ \E start \in 0..MaxStart : \E width \in 1..MaxWidth :
              inner_le = linear_buckets(start, width)
    /\ inner_buckets = [h \in Hists |-> [i \in 0..(N - 1) |-> 0]]
    /\ inner_inf = [h \in Hists |-> 0]
    /\ inner_sum = [h \in Hists |-> 0]
    /\ inner_readers = [h \in Hists |-> {}]
    /\ inner_writer = [h \in Hists |-> FALSE]
    /\ ipc = [t \in HThreads |-> "idle"]
    /\ ih = [t \in HThreads |-> 0]
    /\ ix = [t \in HThreads |-> 0]
    /\ ibucket = [t \in HThreads |-> 0]
    /\ iprev = [t \in HThreads |-> 0]
    /\ ifor = [t \in HThreads |-> "call"]
    /\ iops_left = [t \in HThreads |-> InnerOps]
    /\ icall = [t \in HThreads |-> [op |-> "none", label |-> 0]]
    /\ inner_seen = [h \in Hists |-> [v \in InnerValues |-> 0]]
    /\ timer = [t \in HThreads |-> [held |-> FALSE, vec |-> FALSE, id |-> 0,
                                    start |-> 0]]
    /\ timer_end = [t \in HThreads |-> [how |-> "none", id |-> 0,
                                        ret |-> None]]
    /\ timer_obs = [t \in HThreads |-> [h \in Hists |-> 0]]
    /\ now = 0
    /\ icoll_pc = None - 1
    /\ icoll_left = MaxInnerCollects
    /\ inner_enc = <<>>

\* the clock moves on
Tick ==
    /\ now < MaxTime
    /\ now' = now + 1
    /\ UNCHANGED <<inner_le, inner_buckets, inner_inf, inner_sum,
                   inner_readers, inner_writer, ipc, ih, ix, ibucket, iprev,
                   ifor, iops_left, icall, inner_seen, timer, timer_end, timer_obs,
                   icoll_pc, icoll_left, inner_enc, outside_inner>>

\* HistogramRef::observe(x) on histogram h, up to and with inner.read():
\* the bucket is found first, then the shared lock is taken
ObserveBegin(t, h, x, for) ==
    /\ ~inner_writer[h]
    /\ inner_readers' = [inner_readers EXCEPT ![h] = @ \cup {t}]
    /\ ih' = [ih EXCEPT ![t] = h]
    /\ ix' = [ix EXCEPT ![t] = x]
    /\ ibucket' = [ibucket EXCEPT ![t] = partition_point(inner_le, x)]
    /\ ifor' = [ifor EXCEPT ![t] = for]
    /\ ipc' = [ipc EXCEPT ![t] = "bucket"]

\* Histogram::observe(x), and HistogramVec::observe(label, y), which panics
\* on a label group that with_labels cannot encode
InnerObserve(t, label, x) ==
    /\ ipc[t] = "idle"
    /\ iops_left[t] > 0
    /\ iops_left' = [iops_left EXCEPT ![t] = @ - 1]
    /\ icall' = [icall EXCEPT ![t] = [op |-> "observe", label |-> label]]
    /\ IF label = HistBadLabel
       THEN /\ ipc' = [ipc EXCEPT ![t] = "panicked"]
            /\ UNCHANGED <<inner_readers, ih, ix, ibucket, ifor>>
       ELSE ObserveBegin(t, label, x, "call")
    /\ UNCHANGED <<inner_le, inner_buckets, inner_inf, inner_sum,
                   inner_writer, iprev, inner_seen, timer, timer_end,
                   timer_obs, now, icoll_pc, icoll_left, inner_enc,
                   outside_inner>>

\* HistogramStateInner::observe: assert!(bucket <= N), then one fetch_add,
\* on the bucket's counter or on inf
InnerBucket(t) ==
    /\ ipc[t] = "bucket"
    /\ IF ibucket[t] > N
       THEN /\ ipc' = [ipc EXCEPT ![t] = "panicked"]
            /\ inner_readers' = [inner_readers EXCEPT ![ih[t]] = @ \ {t}]
            /\ UNCHANGED <<inner_buckets, inner_inf>>
       ELSE /\ ipc' = [ipc EXCEPT ![t] = "load"]
            /\ UNCHANGED inner_readers
            /\ IF ibucket[t] < N
               THEN /\ inner_buckets' = [inner_buckets EXCEPT
                          ![ih[t]][ibucket[t]] = FetchAdd(@, 1)]
                    /\ UNCHANGED inner_inf
               ELSE /\ inner_inf' = [inner_inf EXCEPT
                          ![ih[t]] = FetchAdd(@, 1)]
                    /\ UNCHANGED inner_buckets
    /\ UNCHANGED <<inner_le, inner_sum, inner_writer, ih, ix, ibucket, iprev,
                   ifor, iops_left, icall, inner_seen, timer, timer_end, timer_obs,
                   now, icoll_pc, icoll_left, inner_enc, outside_inner>>

\* fetch_update: the load that starts the loop
InnerSumLoad(t) ==
    /\ ipc[t] = "load"
    /\ iprev' = [iprev EXCEPT ![t] = inner_sum[ih[t]]]
    /\ ipc' = [ipc EXCEPT ![t] = "cas"]
    /\ UNCHANGED <<inner_le, inner_buckets, inner_inf, inner_sum,
                   inner_readers, inner_writer, ih, ix, ibucket, ifor,
                   iops_left, icall, inner_seen, timer, timer_end, timer_obs, now,
                   icoll_pc, icoll_left, inner_enc, outside_inner>>

\* fetch_update: the compare-exchange; a failure reloads and tries again, a
\* success ends observe and drops the read guard
InnerSumCas(t) ==
    /\ ipc[t] = "cas"
    /\ IF CompareExchangeOk(inner_sum[ih[t]], iprev[t])
       THEN /\ inner_sum' = [inner_sum EXCEPT
                  ![ih[t]] = SumUpdate(iprev[t], ix[t])]
            /\ inner_seen' = [inner_seen EXCEPT ![ih[t]][ix[t]] = @ + 1]
            /\ inner_readers' = [inner_readers EXCEPT ![ih[t]] = @ \ {t}]
            /\ timer_obs' = [timer_obs EXCEPT
                  ![t][ih[t]] = IF ifor[t] = "call" THEN @ ELSE @ + 1]
            /\ ipc' = [ipc EXCEPT
                  ![t] = IF ifor[t] = "observe" THEN "observed" ELSE "idle"]
            /\ iprev' = [iprev EXCEPT ![t] = 0]
            /\ ix' = [ix EXCEPT ![t] = 0]
            /\ ih' = [ih EXCEPT ![t] = 0]
            /\ ibucket' = [ibucket EXCEPT ![t] = 0]
            /\ ifor' = [ifor EXCEPT ![t] = "call"]
       ELSE /\ iprev' = [iprev EXCEPT ![t] = inner_sum[ih[t]]]
            /\ UNCHANGED <<inner_sum, inner_seen, inner_readers, timer_obs,
                           ipc, ix, ih, ibucket, ifor>>
    /\ UNCHANGED <<inner_le, inner_buckets, inner_inf, inner_writer,
                   iops_left, icall, timer, timer_end, now, icoll_pc, icoll_left,
                   inner_enc, outside_inner>>

NoTimer == [held |-> FALSE, vec |-> FALSE, id |-> 0, start |-> 0]

\* Histogram::start_timer (label 0) and HistogramVec::start_timer(label),
\* which returns None for a label group that with_labels cannot encode
start_timer(t, label) ==
    /\ ipc[t] = "idle"
    /\ ~timer[t].held
    /\ iops_left[t] > 0
    /\ iops_left' = [iops_left EXCEPT ![t] = @ - 1]
    /\ icall' = [icall EXCEPT
          ![t] = [op |-> "start_timer", label |-> label]]
    /\ IF label = HistBadLabel
       THEN UNCHANGED <<timer, timer_end, timer_obs>>
       ELSE /\ timer' = [timer EXCEPT ![t] =
                  [held |-> TRUE, vec |-> TRUE, id |-> label, start |-> now]]
            /\ timer_end' = [timer_end EXCEPT
                  ![t] = [how |-> "none", id |-> label, ret |-> None]]
            /\ timer_obs' = [timer_obs EXCEPT ![t] = [h \in Hists |-> 0]]
    /\ UNCHANGED <<inner_le, inner_buckets, inner_inf, inner_sum,
                   inner_readers, inner_writer, ipc, ih, ix, ibucket, iprev,
                   ifor, inner_seen, now, icoll_pc, icoll_left, inner_enc,
                   outside_inner>>

\* a drop that observes whether or not the timer was disarmed
DropAlwaysObserves(vec) == TRUE

\* Drop::drop: `if let Some(v) = self.vec` decides whether it observes
DropObserves(vec) == vec

\* the timer leaves its scope (at the end of the scope, at an early return
\* or in an unwind) and Drop::drop runs: an armed timer observes the time
\* since its start
TimerDrop(t, path) ==
    /\ ipc[t] = "idle"
    /\ timer[t].held
    /\ timer' = [timer EXCEPT ![t] = NoTimer]
    /\ timer_end' = [timer_end EXCEPT ![t].how = path]
    /\ IF DropObserves(timer[t].vec)
       THEN ObserveBegin(t, timer[t].id, now - timer[t].start, "drop")
       ELSE UNCHANGED <<inner_readers, ih, ix, ibucket, ifor, ipc>>
    /\ UNCHANGED <<inner_le, inner_buckets, inner_inf, inner_sum,
                   inner_writer, iprev, iops_left, icall, inner_seen, timer_obs, now,
                   icoll_pc, icoll_left, inner_enc, outside_inner>>

\* forget(mut self): self.vec = None, and self is dropped as forget returns
forget(t) ==
    /\ ipc[t] = "idle"
    /\ timer[t].held
    /\ timer' = [timer EXCEPT ![t] = NoTimer]
    /\ timer_end' = [timer_end EXCEPT ![t].how = "forget"]
    /\ IF DropObserves(FALSE)
       THEN ObserveBegin(t, timer[t].id, now - timer[t].start, "drop")
       ELSE UNCHANGED <<inner_readers, ih, ix, ibucket, ifor, ipc>>
    /\ UNCHANGED <<inner_le, inner_buckets, inner_inf, inner_sum,
                   inner_writer, iprev, iops_left, icall, inner_seen, timer_obs, now,
                   icoll_pc, icoll_left, inner_enc, outside_inner>>

\* Option::take that leaves the value in place
TakeKeeps(vec) == vec

\* Option::take: what is left in self.vec
take(vec) == FALSE

\* HistogramTimer::observe and HistogramVecTimer::observe: self.vec.take(),
\* then observe_duration_since(self.start), which reads the elapsed time
\* once, observes it and returns it
timer_observe(t) ==
    /\ ipc[t] = "idle"
    /\ timer[t].held
    /\ timer[t].vec
    /\ timer' = [timer EXCEPT ![t].vec = take(@)]
    /\ timer_end' = [timer_end EXCEPT
          ![t].how = "observe", ![t].ret = now - timer[t].start]
    /\ ObserveBegin(t, timer[t].id, now - timer[t].start, "observe")
    /\ UNCHANGED <<inner_le, inner_buckets, inner_inf, inner_sum,
                   inner_writer, iprev, iops_left, icall, inner_seen, timer_obs, now,
                   icoll_pc, icoll_left, inner_enc, outside_inner>>

\* observe(mut self) returns: self is dropped, and Drop::drop runs on what
\* take left in self.vec
timer_observe_return(t) ==
    /\ ipc[t] = "observed"
    /\ timer' = [timer EXCEPT ![t] = NoTimer]
    /\ IF DropObserves(timer[t].vec)
       THEN ObserveBegin(t, timer[t].id, now - timer[t].start, "drop")
       ELSE /\ ipc' = [ipc EXCEPT ![t] = "idle"]
            /\ UNCHANGED <<inner_readers, ih, ix, ibucket, ifor>>
    /\ UNCHANGED <<inner_le, inner_buckets, inner_inf, inner_sum,
                   inner_writer, iprev, iops_left, icall, inner_seen, timer_end,
                   timer_obs, now, icoll_pc, icoll_left, inner_enc,
                   outside_inner>>

\* the collector takes inner.write() of histogram h
InnerCollectLock(h) ==
    /\ icoll_pc = None - 1
    /\ icoll_left > 0
    /\ inner_readers[h] = {}
    /\ ~inner_writer[h]
    /\ inner_writer' = [inner_writer EXCEPT ![h] = TRUE]
    /\ icoll_pc' = h
    /\ icoll_left' = icoll_left - 1
    /\ UNCHANGED <<inner_le, inner_buckets, inner_inf, inner_sum,
                   inner_readers, ipc, ih, ix, ibucket, iprev, ifor,
                   iops_left, icall, inner_seen, timer, timer_end, timer_obs, now,
                   inner_enc, outside_inner>>

\* HistogramStateInner::sample: the bucket counters, inf and the sum
sample(h) ==
    [buckets |-> inner_buckets[h], inf |-> inner_inf[h],
     sum |-> from_bits(inner_sum[h])]

\* the running total of the first i bucket counters
RECURSIVE Cumulative(_, _)
Cumulative(buckets, i) ==
    IF i = 0 THEN 0 ELSE Cumulative(buckets, i - 1) + buckets[i - 1]

\* the records of one histogram: cumulative buckets, +Inf, sum and count
InnerRecords(s) ==
    [i \in 1..N |-> FlatRecord("write_metric", "_bucket", inner_le[i],
                               Cumulative(s.buckets, i))]
    \o << FlatRecord("write_metric", "_bucket", INFINITY,
                     Cumulative(s.buckets, N) + s.inf),
          FlatRecord("write_metric", "_sum", None, s.sum),
          FlatRecord("write_metric", "_count", None,
                     Cumulative(s.buckets, N) + s.inf) >>

\* the collector samples under the write guard, drops it and encodes
InnerCollectSample ==
    /\ icoll_pc \in Hists
    /\ inner_enc' = <<FlatRecord("write_type", "", None, 0)>>
                    \o InnerRecords(sample(icoll_pc))
    /\ inner_writer' = [inner_writer EXCEPT ![icoll_pc] = FALSE]
    /\ icoll_pc' = None - 1
    /\ UNCHANGED <<inner_le, inner_buckets, inner_inf, inner_sum,
                   inner_readers, ipc, ih, ix, ibucket, iprev, ifor,
                   iops_left, icall, inner_seen, timer, timer_end, timer_obs, now,
                   icoll_left, outside_inner>>

InnerIdle == \A t \in HThreads : ipc[t] \in {"idle", "panicked"}

InnerNext ==
    \/ Tick
    \/ \E t \in HThreads : \E label \in Hists \cup {HistBadLabel} :
           \E x \in Observations : InnerObserve(t, label, x)
    \/ \E t \in HThreads : InnerBucket(t)
    \/ \E t \in HThreads : InnerSumLoad(t)
    \/ \E t \in HThreads : InnerSumCas(t)
    \/ \E t \in HThreads : \E label \in Hists \cup {HistBadLabel} :
           start_timer(t, label)
    \/ \E t \in HThreads : \E path \in {"scope_end", "return", "unwind"} :
           TimerDrop(t, path)
    \/ \E t \in HThreads : forget(t)
    \/ \E t \in HThreads : timer_observe(t)
    \/ \E t \in HThreads : timer_observe_return(t)
    \/ \E h \in Hists : InnerCollectLock(h)
    \/ InnerCollectSample

(* ------------------------- Thresholds<N> ----------------------------- *)

\* the first integer past which an f64 no longer holds every integer
FirstInexact == Pow2(F64MantBits + 1)

\* the f64 arguments the constructors and observe are called with
ThValues == {0 - 1, 0, 1, 2, 3, FirstInexact, INFINITY, NAN}

ThInit ==
    /\ th_state = "none"
    /\ th_call = [ctor |-> "none", args |-> <<>>]
    /\ th_le = <<>>
    /\ th_view = <<>>
    /\ th_x = 0
    /\ th_via = "none"
    /\ th_bucket = 0
    /\ th_assert = TRUE
    /\ th_hits = [i \in 0..N |-> 0]
    /\ th_ops = MaxThOps

\* a constructor that panics returns nothing; one that returns gives le
ThConstruct(ctor, args, ok, le) ==
    /\ th_call' = [ctor |-> ctor, args |-> args]
    /\ th_state' = IF ok THEN "built" ELSE "panicked"
    /\ th_le' = IF ok THEN le ELSE <<>>
    /\ UNCHANGED <<th_view, th_x, th_via, th_bucket, th_assert, th_hits,
                   th_ops, outside_th>>

\* Thresholds::exponential_buckets of metric/histogram.rs:
\* assert!(start > 0.0) and assert!(factor > 1.0), then the array
ThExponentialBuckets(start, factor) ==
    /\ th_state = "none"
    /\ ThConstruct("exponential_buckets", <<start, factor>>,
                   FGt(start, 0) /\ FGt(factor, 1),
                   exponential_buckets(start, factor))

\* Thresholds::exponential_buckets of lib.rs: panic if start <= 0.0 or
\* factor <= 1.0, then the array with INFINITY in the last place
ThLibExponentialBuckets(start, factor) ==
    /\ th_state = "none"
    /\ ThConstruct("lib::exponential_buckets", <<start, factor>>,
                   ~FLe(start, 0) /\ ~FLe(factor, 1),
                   exponential_buckets_inf(start, factor))

\* Thresholds::linear_buckets: assert!(width > 0.0), then the array
ThLinearBuckets(start, width) ==
    /\ th_state = "none"
    /\ ThConstruct("linear_buckets", <<start, width>>,
                   FGt(width, 0),
                   linear_buckets(start, width))

\* a check of with_buckets that lets equal neighbours through
BucketsNotDecreasing(buckets) ==
    \A i \in 1..(Len(buckets) - 1) : FLe(buckets[i], buckets[i + 1])

\* for i in 0..N - 1 { assert!(buckets[i] < buckets[i + 1]) }
BucketsIncrease(buckets) ==
    \A i \in 1..(Len(buckets) - 1) : FLt(buckets[i], buckets[i + 1])

\* Thresholds::with_buckets
ThWithBuckets(buckets) ==
    /\ th_state = "none"
    /\ ThConstruct("with_buckets", buckets, BucketsIncrease(buckets), buckets)

\* Thresholds::get: a shared view of le
ThGet ==
    /\ th_state = "built"
    /\ th_view' = th_le
    /\ UNCHANGED <<th_state, th_call, th_le, th_x, th_via, th_bucket,
                   th_assert, th_hits, th_ops, outside_th>>

\* HistogramRef::observe (via = "ref") and HistogramMut::observe ("mut"):
\* the partition point, then the inner observe / observe_mut with its
\* assert!(bucket <= N) and the increment of the bucket's counter or of inf
ThObserve(via, x) ==
    /\ th_state = "built"
    /\ th_ops > 0
    /\ th_ops' = th_ops - 1
    /\ th_x' = x
    /\ th_via' = via
    /\ LET bucket == partition_point(th_le, x) IN
           /\ th_bucket' = bucket
           /\ th_assert' = (bucket <= N)
           /\ th_hits' = IF bucket <= N
                         THEN [th_hits EXCEPT ![bucket] = FetchAdd(@, 1)]
                         ELSE th_hits
    /\ UNCHANGED <<th_state, th_call, th_le, th_view, outside_th>>

ThNext ==
    \/ \E start, factor \in ThValues : ThExponentialBuckets(start, factor)
    \/ \E start, factor \in ThValues : ThLibExponentialBuckets(start, factor)
    \/ \E start, width \in ThValues : ThLinearBuckets(start, width)
    \/ \E buckets \in [1..N -> ThValues] : ThWithBuckets(buckets)
    \/ ThGet
    \/ \E via \in {"ref", "mut"} : \E x \in ThValues : ThObserve(via, x)

(* ---------------------------- MetricName ----------------------------- *)

\* a str is the sequence of its bytes, each a one-character string
Digits == {"0", "1", "2", "3", "4", "5", "6", "7", "8", "9"}
Uppers == {"A", "B", "C", "D", "E", "F", "G", "H", "I", "J", "K", "L", "M",
           "N", "O", "P", "Q", "R", "S", "T", "U", "V", "W", "X", "Y", "Z"}
Lowers == {"a", "b", "c", "d", "e", "f", "g", "h", "i", "j", "k", "l", "m",
           "n", "o", "p", "q", "r", "s", "t", "u", "v", "w", "x", "y", "z"}

\* the bytes the names handed to the validators are made of
NameBytes == {"a", "Z", "7", "_", ":", "-", "$"}

RECURSIVE StrsUpTo(_)
StrsUpTo(n) ==
    IF n = 0 THEN {<<>>}
    ELSE StrsUpTo(n - 1) \cup [1..n -> NameBytes]
Names == StrsUpTo(MaxNameLen)
Namespaces == StrsUpTo(1)

\* b'0'..=b'9' | b'A'..=b'Z' | b'a'..=b'z' | b'-' | b'_' | b':'
AcceptedByte(b) == b \in Digits \cup Uppers \cup Lowers \cup {"-", "_", ":"}

\* u8::is_ascii_digit
is_ascii_digit(b) == b \in Digits

\* TryFrom<&str> for &CheckedMetricName: the checks in their order
try_from(value) ==
    IF value = <<>> THEN "Empty"
    ELSE IF \E i \in 1..Len(value) : ~AcceptedByte(value[i])
         THEN "InvalidChars"
         ELSE IF is_ascii_digit(value[1]) THEN "StartsWithNumber"
              ELSE "Ok"

\* CheckedMetricName::from_static: TRUE when it returns, FALSE when one of
\* its three panics is reached
from_static(value) ==
    IF value = <<>> THEN FALSE
    ELSE IF \E i \in 1..Len(value) : ~AcceptedByte(value[i])
         THEN FALSE
         ELSE ~is_ascii_digit(value[1])

NameInit ==
    /\ name_state = "none"
    /\ name_via = "none"
    /\ name_value = <<>>
    /\ name_err = "none"
    /\ name_wrappers = <<>>
    /\ name_buf \in {<<>>, <<"#", " ">>}
    /\ name_buf_before = name_buf
    /\ name_encoded = <<>>
    /\ name_encodes = MaxEncodes

\* <&CheckedMetricName>::try_from(value)
NameTryFrom(value) ==
    /\ name_state = "none"
    /\ name_via' = "try_from"
    /\ name_value' = value
    /\ name_err' = IF try_from(value) = "Ok" THEN "none" ELSE try_from(value)
    /\ name_state' = IF try_from(value) = "Ok" THEN "ok" ELSE "err"
    /\ UNCHANGED <<name_wrappers, name_buf, name_buf_before, name_encoded,
                   name_encodes,
                   outside_name>>

\* CheckedMetricName::from_static(value)
NameFromStatic(value) ==
    /\ name_state = "none"
    /\ name_via' = "from_static"
    /\ name_value' = value
    /\ name_state' = IF from_static(value) THEN "ok" ELSE "panicked"
    /\ UNCHANGED <<name_err, name_wrappers, name_buf, name_buf_before,
                   name_encoded, name_encodes, outside_name>>

\* CheckedMetricName::in_namespace(ns): from_static(ns), then the wrapper;
\* only the checked base name has this method
in_namespace(ns) ==
    /\ name_state = "ok"
    /\ name_wrappers = <<>>
    /\ IF from_static(ns)
       THEN /\ name_wrappers' = <<[kind |-> "WithNamespace", text |-> ns]>>
            /\ UNCHANGED name_state
       ELSE /\ name_state' = "namespace_panicked"
            /\ UNCHANGED name_wrappers
    /\ UNCHANGED <<name_via, name_value, name_err, name_buf, name_buf_before,
                   name_encoded, name_encodes, outside_name>>

\* Suffix::encode_text of Total, Count, Sum and Bucket: the literal
SuffixText(suffix) ==
    CASE suffix = "Total" -> <<"_", "t", "o", "t", "a", "l">>
      [] suffix = "Count" -> <<"_", "c", "o", "u", "n", "t">>
      [] suffix = "Sum" -> <<"_", "s", "u", "m">>
      [] suffix = "Bucket" -> <<"_", "b", "u", "c", "k", "e", "t">>
Suffixes == {"Total", "Count", "Sum", "Bucket"}

\* with_suffix(suffix), on the base name or on any wrapper
with_suffix(suffix) ==
    /\ name_state = "ok"
    /\ Len(SelectSeq(name_wrappers, LAMBDA w : w.kind = "WithSuffix"))
           < MaxSuffixes
    /\ name_wrappers' =
           Append(name_wrappers,
                  [kind |-> "WithSuffix", text |-> SuffixText(suffix)])
    /\ UNCHANGED <<name_state, name_via, name_value, name_err, name_buf,
                   name_buf_before, name_encoded,
                   name_encodes, outside_name>>

\* WithNamespace::encode_text that leaves out the "_"
NamespaceNoSeparator(ns) == ns

\* WithNamespace::encode_text: what it writes before the wrapped name
NamespacePrefix(ns) == ns \o <<"_">>

\* MetricName::encode_text of the wrappers around `value`, outermost last:
\* WithSuffix encodes the wrapped name and then its suffix, WithNamespace
\* writes the namespace and "_" and then encodes the wrapped name, and
\* CheckedMetricName extends the buffer with its bytes
RECURSIVE encode_text(_, _, _)
encode_text(value, wrappers, b) ==
    IF wrappers = <<>> THEN b \o value
    ELSE LET outer == wrappers[Len(wrappers)]
             wrapped == SubSeq(wrappers, 1, Len(wrappers) - 1)
         IN  IF outer.kind = "WithSuffix"
             THEN encode_text(value, wrapped, b) \o outer.text
             ELSE encode_text(value, wrapped, b \o NamespacePrefix(outer.text))

\* name.encode_text(&mut b)
NameEncode ==
    /\ name_state = "ok"
    /\ name_encodes > 0
    /\ name_encodes' = name_encodes - 1
    /\ name_buf_before' = name_buf
    /\ name_encoded' = name_wrappers
    /\ name_buf' = encode_text(name_value, name_wrappers, name_buf)
    /\ UNCHANGED <<name_state, name_via, name_value, name_err, name_wrappers,
                   outside_name>>

NameNext ==
    \/ \E value \in Names : NameTryFrom(value)
    \/ \E value \in Names : NameFromStatic(value)
    \/ \E ns \in Namespaces : in_namespace(ns)
    \/ \E suffix \in Suffixes : with_suffix(suffix)
    \/ NameEncode

(* ----------------------- HistogramStateInner<N> ----------------------- *)

\* the bucket indices observe is called with: every valid one and some
\* past N
StIndices == 0..(N + MaxPastN)

\* HistogramState::default(): every counter and the sum are ZERO
StInit ==
    /\ st_buckets = [i \in 0..(N - 1) |-> 0]
    /\ st_inf = 0
    /\ st_sum = 0
    /\ st_call = [via |-> "none", bucket |-> 0, x |-> 0]
    /\ st_before = [buckets |-> [i \in 0..(N - 1) |-> 0], inf |-> 0,
                    sum |-> 0]
    /\ st_panicked = FALSE
    /\ st_ops = MaxStOps

\* the body observe and observe_mut share: assert!(bucket <= N), one hit
\* counter incremented, x added to the sum
StCall(via, bucket, x) ==
    /\ st_ops > 0
    /\ ~st_panicked
    /\ st_ops' = st_ops - 1
    /\ st_call' = [via |-> via, bucket |-> bucket, x |-> x]
    /\ st_before' = [buckets |-> st_buckets, inf |-> st_inf, sum |-> st_sum]
    /\ IF bucket <= N
       THEN /\ st_panicked' = FALSE
            /\ IF bucket < N
               THEN /\ st_buckets' = [st_buckets EXCEPT
                          ![bucket] = FetchAdd(@, 1)]
                    /\ UNCHANGED st_inf
               ELSE /\ st_inf' = FetchAdd(st_inf, 1)
                    /\ UNCHANGED st_buckets
            /\ st_sum' = SumUpdate(st_sum, x)
       ELSE /\ st_panicked' = TRUE
            /\ UNCHANGED <<st_buckets, st_inf, st_sum>>
    /\ UNCHANGED outside_st

\* HistogramStateInner::observe(&self, bucket, x), no other thread running
StObserve(bucket, x) ==
    /\ st_call.via \in {"none", "observe", "observe_mut"}
    /\ StCall("observe", bucket, x)

\* HistogramStateInner::observe_mut(&mut self, bucket, x)
StObserveMut(bucket, x) ==
    /\ st_call.via \in {"none", "observe", "observe_mut"}
    /\ StCall("observe_mut", bucket, x)

StNext ==
    \/ \E bucket \in StIndices : \E x \in 0..MaxObs : StObserve(bucket, x)
    \/ \E bucket \in StIndices : \E x \in 0..MaxObs :
           StObserveMut(bucket, x)

Init ==
    /\ CounterInit /\ VecInit /\ FlatInit /\ InnerInit /\ ThInit /\ NameInit
    /\ StInit

\* the Counter under increments of at most MaxInc
CounterNext ==
    \/ \E t \in CThreads : inc(t)
    \/ \E t \in CThreads : \E x \in 0..MaxInc : inc_by(t, x)
    \/ CounterCollect

\* the construction choices of a component that a specification leaves idle
VecPinned ==
    cardinality = None /\ vec_kind = "Sparse" /\ vec_metric = "counter"
CounterVecPinned == vec_metric = "counter"
FlatPinned == flat_le = exponential_buckets_inf(1, 2)
InnerPinned == inner_le = exponential_buckets(1, 2)
NamePinned == name_buf = <<>>

VecOnlyInit ==
    Init /\ CounterVecPinned /\ FlatPinned /\ InnerPinned /\ NamePinned
SpecVec == VecOnlyInit /\ [][VecNext]_vars

FlatOnlyInit == Init /\ VecPinned /\ InnerPinned /\ NamePinned
SpecFlat == FlatOnlyInit /\ [][FlatNext]_vars

InnerOnlyInit == Init /\ VecPinned /\ FlatPinned /\ NamePinned
SpecInner == InnerOnlyInit /\ [][InnerNext]_vars

CounterOnlyInit == Init /\ VecPinned /\ FlatPinned /\ InnerPinned /\ NamePinned
SpecCounter == CounterOnlyInit /\ [][CounterNext]_vars

ThOnlyInit == Init /\ VecPinned /\ FlatPinned /\ InnerPinned /\ NamePinned

NameOnlyInit == Init /\ VecPinned /\ FlatPinned /\ InnerPinned
SpecName == NameOnlyInit /\ [][NameNext]_vars
SpecThresholds == ThOnlyInit /\ [][ThNext]_vars

StOnlyInit == Init /\ VecPinned /\ FlatPinned /\ InnerPinned /\ NamePinned
SpecStateInner == StOnlyInit /\ [][StNext]_vars

\* calls by label on a CounterVec and on a HistogramVec, one calling
\* thread on the first and no collection
Caller == CHOOSE t \in VThreads : TRUE
LabelNext ==
    \/ \E label \in LabelGroups : VecInc(Caller, label)
    \/ \E label \in LabelGroups : \E y \in 0..MaxVecInc :
           VecIncBy(Caller, label, y)
    \/ DenseGet(Caller)
    \/ SparseLookup(Caller)
    \/ SparseCallback(Caller)
    \/ SparseWrite(Caller)
    \/ SparseInsert(Caller)
    \/ SparseReread(Caller)
    \/ \E t \in HThreads : \E label \in Hists \cup {HistBadLabel} :
           \E x \in Observations : InnerObserve(t, label, x)
    \/ \E t \in HThreads : InnerBucket(t)
    \/ \E t \in HThreads : InnerSumLoad(t)
    \/ \E t \in HThreads : InnerSumCas(t)
    \/ \E t \in HThreads : \E label \in Hists \cup {HistBadLabel} :
           start_timer(t, label)
    \/ \E t \in HThreads : TimerDrop(t, "scope_end")

LabelOnlyInit ==
    Init /\ CounterVecPinned /\ FlatPinned /\ InnerPinned /\ NamePinned
SpecLabels == LabelOnlyInit /\ [][LabelNext]_vars

\* collection of a Counter, of a Histogram and of a MetricVec of either,
\* with one thread calling into the MetricVec
CollectNext ==
    \/ CounterCollect
    \/ FlatCollectBegin
    \/ FlatCollectBucket
    \/ FlatCollectSum
    \/ FlatCollectCount
    \/ \E label \in Labels : VecInc(Caller, label)
    \/ \E id \in Labels : VecGetMetric(Caller, id)
    \/ DenseGet(Caller)
    \/ SparseLookup(Caller)
    \/ SparseCallback(Caller)
    \/ SparseWrite(Caller)
    \/ SparseInsert(Caller)
    \/ SparseReread(Caller)
    \/ VecCollectBegin
    \/ VecCollectEntry
    \/ VecCollectEnd

CollectOnlyInit == Init /\ InnerPinned /\ NamePinned
SpecCollect == CollectOnlyInit /\ [][CollectNext]_vars

\* the calls into the MetricVec and its collection have all returned
VecDone == VecIdle /\ vcoll_pc = "idle" /\ vcoll_left = 0

\* Histogram::observe(x), begun once the work on the MetricVec is over: the
\* vector and the histogram share no state
LiveObserve(t, x) ==
    /\ VecDone
    /\ InnerObserve(t, 0, x)

\* the collection of the Histogram, begun once the work on the MetricVec is
\* over
LiveCollectLock ==
    /\ VecDone
    /\ InnerCollectLock(0)

\* threads that call into a MetricVec while a collection walks it, and then
\* threads that observe on a histogram while a collector samples it
LiveNext ==
    \/ \E t \in VThreads : \E label \in Labels : VecInc(t, label)
    \/ \E t \in VThreads : DenseGet(t)
    \/ \E t \in VThreads : SparseLookup(t)
    \/ \E t \in VThreads : SparseCallback(t)
    \/ \E t \in VThreads : SparseWrite(t)
    \/ \E t \in VThreads : SparseInsert(t)
    \/ \E t \in VThreads : SparseReread(t)
    \/ VecCollectBegin
    \/ VecCollectEntry
    \/ VecCollectEnd
    \/ \E t \in HThreads : \E x \in 1..MaxLiveObs : LiveObserve(t, x)
    \/ \E t \in HThreads : InnerBucket(t)
    \/ \E t \in HThreads : InnerSumLoad(t)
    \/ \E t \in HThreads : InnerSumCas(t)
    \/ LiveCollectLock
    \/ InnerCollectSample

\* every thread inside a call keeps being scheduled, and so does a collector
\* inside a collection; nothing obliges anyone to start a call
LiveFairness ==
    /\ \A t \in VThreads :
           WF_vars(DenseGet(t) \/ SparseLookup(t) \/ SparseCallback(t)
                   \/ SparseWrite(t) \/ SparseInsert(t) \/ SparseReread(t))
    /\ WF_vars(VecCollectEntry \/ VecCollectEnd)
    /\ \A t \in HThreads :
           WF_vars(InnerBucket(t) \/ InnerSumLoad(t) \/ InnerSumCas(t))
    /\ WF_vars(InnerCollectSample)

LiveOnlyInit ==
    Init /\ CounterVecPinned /\ FlatPinned /\ InnerPinned /\ NamePinned
SpecLive == LiveOnlyInit /\ [][LiveNext]_vars /\ LiveFairness

\* the Counter under every increment a u64 argument can carry
CounterWideNext ==
    \/ \E t \in CThreads : inc(t)
    \/ \E t \in CThreads : \E x \in 0..U64Max : inc_by(t, x)
    \/ CounterCollect

SpecCounterWide == CounterOnlyInit /\ [][CounterWideNext]_vars

(* ------------------------------ claims -------------------------------- *)

SparseFirstIncrementsKept ==
    (vec_kind = "Sparse" /\ VecIdle) =>
        /\ \A l \in Labels : applied[l] > 0 => l \in DOMAIN sparse
        /\ \A l \in DOMAIN sparse : sparse[l] = applied[l]

\* C2 witness: a thread holds the write lock to insert an identity that
\* another thread has meanwhile created and incremented
SparseFirstIncrementsRace ==
    \E t \in VThreads :
        /\ vpc[t] = "insert"
        /\ vid[t] \in DOMAIN sparse
        /\ sparse[vid[t]] > 0

\* C7: a MetricVec built by new_metric_vec over a label space of finite
\* cardinality c is dense with exactly c slots, all default while nothing
\* has been recorded, and it has c slots in every later state.
DenseSlotsFixed ==
    /\ (cardinality # None /\ vec_kind = "Dense") =>
           /\ DOMAIN dense = 0..(cardinality - 1)
           /\ Cardinality(DOMAIN dense) = cardinality
           /\ sparse = <<>>
           /\ (\A l \in Labels : applied[l] = 0) =>
                  \A i \in DOMAIN dense : dense[i] = 0
    /\ vec_kind = "Dense" => cardinality # None

\* C7 witness: a dense vec after increments to every label and a collection
DenseSlotsFixedWitness ==
    /\ vec_kind = "Dense"
    /\ VecIdle
    /\ \A i \in DOMAIN dense : dense[i] > 0
    /\ vcoll_left = 0 /\ vcoll_pc = "idle"

\* C8: in a sparse MetricVec no step removes an entry, and an identity
\* enters the map only in the insert step of a get_metric call for it.
SparseOnlyGrows ==
    [][ /\ DOMAIN sparse \subseteq DOMAIN sparse'
        /\ \A k \in DOMAIN sparse' \ DOMAIN sparse :
               \E t \in VThreads :
                   /\ vpc[t] = "insert" /\ vid[t] = k
                   /\ vpc'[t] = "reread" ]_vars

\* C8 witness: every label identity has an entry and a collection has run
SparseOnlyGrowsWitness ==
    /\ vec_kind = "Sparse"
    /\ DOMAIN sparse = Labels
    /\ vcoll_left = 0 /\ vcoll_pc = "idle"
    /\ VecIdle

\* the values of the write_metric records the Counter's collections made
CounterReported ==
    [i \in 1..Len(counter_loads) |-> counter_enc[2 * i].value]

\* C9: from one collection to the next the Counter's value never decreases:
\* neither the stored unsigned value nor the value handed to the encoder.
CounterNeverDecreases ==
    /\ NonDecreasing(counter_loads)
    /\ NonDecreasing(CounterReported)


\* the bucket records of the flat histogram's last collection, in order
FlatBucketRecords == [i \in 1..N |-> flat_enc[i + 1]]

\* C3: at collection time the bucket reported for every finite threshold b
\* is the number of observations <= b (an observation equal to b counts),
\* and the reported bucket values are non-decreasing in threshold order.
FlatBucketsCountLessOrEqual ==
    FlatCollected =>
        /\ \A i \in 1..N :
               flat_le[i] # INFINITY =>
                   FlatBucketRecords[i].value = FlatSeenAtMost(flat_le[i])
        /\ NonDecreasing([i \in 1..N |-> FlatBucketRecords[i].value])

\* C4: a collection emits one bucket record per finite threshold and a last
\* bucket record with le = +Inf whose value is the number of observations,
\* also when observations exceed every finite threshold.
FlatInfBucketIsTotal ==
    FlatCollected =>
        /\ \A i \in 1..N :
               /\ FlatBucketRecords[i].op = "write_metric"
               /\ FlatBucketRecords[i].suffix = "_bucket"
               /\ FlatBucketRecords[i].le = flat_le[i]
               /\ i < N => FlatBucketRecords[i].le # INFINITY
        /\ \A i \in 1..Len(flat_enc) :
               flat_enc[i].suffix = "_bucket" => i \in 2..(N + 1)
        /\ FlatBucketRecords[N].le = INFINITY
        /\ FlatBucketRecords[N].value = FlatSeenTotal

\* C5: the _count record is the number of observe calls that returned and
\* the _sum record is the sum of their values, from 0, whatever the buckets.
FlatSumAndCount ==
    FlatCollected =>
        /\ flat_enc[N + 2] =
               FlatRecord("write_metric", "_sum", None, FlatSeenSum)
        /\ flat_enc[N + 3] =
               FlatRecord("write_metric", "_count", None, FlatSeenTotal)

\* C5 witness: a collection after two observations of different non-zero
\* values
FlatSumAndCountWitness ==
    /\ FlatCollected
    /\ \E v, w \in Observations :
           /\ 0 < v /\ v < w
           /\ flat_seen[v] > 0 /\ flat_seen[w] > 0


\* the observations histogram h has taken in, by its counters
InnerHits(h) == Cumulative(inner_buckets[h], N) + inner_inf[h]
\* the number and the sum of the observe calls that returned on h
InnerSeenTotal(h) ==
    SeqSum([i \in 1..Cardinality(InnerFinite) |-> inner_seen[h][i - 1]])
    + inner_seen[h][INFINITY]
InnerSeenSum(h) ==
    IF inner_seen[h][INFINITY] > 0 THEN INFINITY
    ELSE SeqSum([i \in 1..Cardinality(InnerFinite) |->
                     (i - 1) * inner_seen[h][i - 1]])

\* C6: when every concurrent observe call has returned, the sum is the
\* initial sum plus all k observed values and the bucket counters and the
\* overflow counter total k: the compare-and-swap loop lost no update.
InnerSumLosesNothing ==
    (\A t \in HThreads : ipc[t] \in {"idle", "panicked"}) =>
        \A h \in Hists :
            /\ from_bits(inner_sum[h]) = InnerSeenSum(h)
            /\ InnerHits(h) = InnerSeenTotal(h)

\* C6 witness: a thread's compare-exchange is about to fail, another
\* observer having changed the sum since the thread loaded it
InnerSumContention ==
    \E t \in HThreads :
        /\ ipc[t] = "cas"
        /\ iprev[t] # inner_sum[ih[t]]
        /\ ix[t] > 0

\* C10: a timer that left its scope armed, on any exit path, has recorded
\* exactly one observation, on its own histogram, once its drop returned;
\* a timer that was forgotten records none, at forget() or afterwards.
TimerObservesOnceUnlessForgotten ==
    \A t \in HThreads :
        /\ (timer_end[t].how \in {"scope_end", "return", "unwind"}
              /\ ipc[t] = "idle") =>
               timer_obs[t] =
                   [h \in Hists |-> IF h = timer_end[t].id THEN 1 ELSE 0]
        /\ timer_end[t].how = "forget" =>
               /\ timer_obs[t] = [h \in Hists |-> 0]
               /\ ipc[t] # "idle" => ifor[t] = "call"

\* C10 witness: a HistogramVec timer dropped in an unwind has recorded its
\* observation, and another thread's timer was forgotten
TimerWitness ==
    \E t, u \in HThreads :
        /\ timer_end[t].how = "unwind" /\ timer_end[t].id > 0
        /\ ipc[t] = "idle"
        /\ timer_obs[t][timer_end[t].id] = 1
        /\ timer_end[u].how = "forget"


\* C11: observe() on a timer records exactly one observation, of the elapsed
\* time it returns, and the drop that follows records nothing more: over its
\* lifetime the timer has recorded one observation, on its own histogram.
TimerObserveRecordsOnce ==
    \A t \in HThreads :
        timer_end[t].how = "observe" =>
            /\ ipc[t] \in {"bucket", "load", "cas"} => ifor[t] # "drop"
            /\ (ipc[t] \in {"bucket", "load", "cas"} /\ ifor[t] = "observe") =>
                   /\ ix[t] = timer_end[t].ret
                   /\ ih[t] = timer_end[t].id
                   /\ timer_obs[t] = [h \in Hists |-> 0]
            /\ (ipc[t] \in {"observed", "idle"} \/ ifor[t] = "call") =>
                   /\ timer_obs[t] =
                          [h \in Hists |-> IF h = timer_end[t].id THEN 1 ELSE 0]
                   /\ inner_seen[timer_end[t].id][timer_end[t].ret] >= 1

\* C11 witness: observe() on a HistogramVec timer has returned a non-zero
\* elapsed time and the timer has been dropped
TimerObserveWitness ==
    \E t \in HThreads :
        /\ timer_end[t].how = "observe" /\ timer_end[t].id > 0
        /\ timer_end[t].ret > 0
        /\ ipc[t] = "idle"
        /\ ~timer[t].held


\* C12: a constructor called with invalid parameters (exponential_buckets
\* with start <= 0 or factor <= 1, linear_buckets with width <= 0,
\* with_buckets with an adjacent pair equal or decreasing) panics and
\* returns no Thresholds value.
InvalidParametersPanic ==
    LET a == th_call.args
        invalid ==
            \/ /\ th_call.ctor \in {"exponential_buckets",
                                    "lib::exponential_buckets"}
               /\ (FLe(a[1], 0) \/ FLe(a[2], 1))
            \/ /\ th_call.ctor = "linear_buckets"
               /\ FLe(a[2], 0)
            \/ /\ th_call.ctor = "with_buckets"
               /\ \E i \in 1..(N - 1) : FLe(a[i + 1], a[i])
    IN  invalid => th_state = "panicked" /\ th_le = <<>>

\* C12 witness: with_buckets was called with a decreasing pair and with
\* nothing else wrong, and panicked
InvalidParametersWitness ==
    /\ th_call.ctor = "with_buckets"
    /\ th_state = "panicked"
    /\ \E i \in 1..(N - 1) :
           /\ FLt(th_call.args[i + 1], th_call.args[i])
           /\ \A j \in 1..(N - 1) :
                  j # i => FLt(th_call.args[j], th_call.args[j + 1])

\* C13: every Thresholds value a constructor returned has
\* le[i] < le[i+1] for all i, and keeps the le it was built with.
ThresholdsStrictlyIncrease ==
    th_state = "built" =>
        /\ \A i \in 1..(N - 1) : FLt(th_le[i], th_le[i + 1])
        /\ th_view \in {<<>>, th_le}

\* C14: exponential_buckets(start, factor) with start > 0 and factor > 1
\* returns N finite thresholds, le[i] = start * factor^i, the last included.
ExponentialBucketsAllFinite ==
    LET start == th_call.args[1]
        factor == th_call.args[2]
    IN  (/\ th_call.ctor \in {"exponential_buckets",
                              "lib::exponential_buckets"}
         /\ FGt(start, 0) /\ FGt(factor, 1)) =>
            /\ th_state = "built"
            /\ Len(th_le) = N
            /\ \A i \in 1..N :
                   /\ th_le[i] = FMul(start, powi(factor, i - 1))
                   /\ Abs(th_le[i]) < INFINITY

\* C20: for strictly increasing thresholds and any x, the index observe
\* passes on is the smallest i with x <= le[i], or N when there is none;
\* it lies in 0..N and the inner assert passes.
ObserveIndexIsSmallestNotBelow ==
    (th_state = "built" /\ BucketsIncrease(th_le) /\ th_via # "none") =>
        /\ th_bucket \in 0..N
        /\ th_assert
        /\ IF \E i \in 1..N : FLe(th_x, th_le[i])
           THEN /\ th_bucket < N
                /\ FLe(th_x, th_le[th_bucket + 1])
                /\ \A i \in 1..th_bucket : ~FLe(th_x, th_le[i])
           ELSE th_bucket = N


\* C15: name validation (try_from and from_static) accepts a string if and
\* only if it matches [a-zA-Z_:][a-zA-Z0-9_:]*.
NameAcceptedIffPattern ==
    LET first == Uppers \cup Lowers \cup {"_", ":"}
        matches ==
            /\ name_value # <<>>
            /\ name_value[1] \in first
            /\ \A i \in 1..Len(name_value) :
                   name_value[i] \in first \cup Digits
        accepted == name_state \notin {"err", "panicked"}
    IN  name_state # "none" => (accepted <=> matches)

\* C16: try_from reports Empty for the empty string, InvalidChars for a
\* string with a byte that is not a letter, a digit, "_" or ":", and
\* StartsWithNumber for a string of such bytes that begins with a digit;
\* from_static panics on exactly the strings try_from rejects.
NameErrorIsExactCause ==
    LET class == Uppers \cup Lowers \cup Digits \cup {"_", ":"}
        outside == \E i \in 1..Len(name_value) : name_value[i] \notin class
    IN  /\ name_via = "try_from" =>
              /\ name_value = <<>> => name_err = "Empty"
              /\ (name_value # <<>> /\ outside) => name_err = "InvalidChars"
              /\ (name_value # <<>> /\ ~outside /\ name_value[1] \in Digits)
                     => name_err = "StartsWithNumber"
        /\ name_via = "from_static" =>
              (name_state = "panicked" <=> try_from(name_value) # "Ok")

\* the suffix literals of the wrappers, in the order they were applied
RECURSIVE SuffixLiterals(_)
SuffixLiterals(wrappers) ==
    IF wrappers = <<>> THEN <<>>
    ELSE (IF Head(wrappers).kind = "WithSuffix"
          THEN Head(wrappers).text ELSE <<>>)
         \o SuffixLiterals(Tail(wrappers))

\* C17: encode_text of a composed name leaves the bytes in the buffer as
\* they were and appends the namespace and "_" (if in a namespace), the
\* base name, and the suffix literals in the order they were applied.
NameEncodingAppendsInOrder ==
    name_encodes < MaxEncodes =>
        LET ns == SelectSeq(name_encoded, LAMBDA w : w.kind = "WithNamespace")
            prefix == IF ns = <<>> THEN <<>> ELSE ns[1].text \o <<"_">>
        IN  name_buf = name_buf_before \o prefix \o name_value
                           \o SuffixLiterals(name_encoded)

\* C17 witness: a name in a namespace with two different suffixes was
\* encoded into a buffer that already held bytes
NameEncodingWitness ==
    /\ name_encodes < MaxEncodes
    /\ name_buf_before # <<>>
    /\ Len(name_encoded) = 3
    /\ name_encoded[1].kind = "WithNamespace"
    /\ name_encoded[2].text # name_encoded[3].text
    /\ Len(name_value) > 1


\* C18: with_labels is None exactly for a label group outside the label
\* space; inc, inc_by and observe with such a group panic and change no
\* stored value and no entry, and start_timer with it returns None and
\* creates no timer.
ForeignLabelTouchesNothing ==
    [][/\ \A t \in VThreads :
              vops_left'[t] # vops_left[t] =>
                  /\ (with_labels(vlabel'[t]) = None) <=>
                         (vlabel'[t] \notin Labels)
                  /\ vlabel'[t] \in Labels => vpc'[t] # "panicked"
                  /\ vlabel'[t] \notin Labels =>
                         /\ vpc'[t] = "panicked"
                         /\ UNCHANGED <<dense, sparse, applied>>
       /\ \A t \in HThreads :
              (iops_left'[t] # iops_left[t] /\ icall'[t].label \notin Hists)
                  =>
                  /\ UNCHANGED <<inner_buckets, inner_inf, inner_sum,
                                 inner_seen, timer>>
                  /\ icall'[t].op = "observe" => ipc'[t] = "panicked"
                  /\ icall'[t].op = "start_timer" =>
                         /\ ipc'[t] = "idle"
                         /\ ~timer'[t].held
      ]_vars

\* C18 witness: inc with a foreign group panicked after an increment was
\* stored, observe with a foreign group panicked, and start_timer with a
\* foreign group returned
ForeignLabelWitness ==
    /\ \E t \in VThreads :
           /\ vpc[t] = "panicked" /\ vlabel[t] = BadLabel
           /\ \E l \in Labels : applied[l] > 0
    /\ \E t, u \in HThreads :
           /\ ipc[t] = "panicked" /\ icall[t].label = HistBadLabel
           /\ icall[u] = [op |-> "start_timer", label |-> HistBadLabel]
           /\ ipc[u] = "idle"

\* the write_type record that opens the latest collection run of the vector
VecRunStart ==
    CHOOSE i \in 1..Len(vec_enc) :
        /\ vec_enc[i].op = "write_type"
        /\ \A j \in (i + 1)..Len(vec_enc) : vec_enc[j].op # "write_type"

\* the write_metric records of the latest collection run of the vector
VecRunSamples == SubSeq(vec_enc, VecRunStart + 1, Len(vec_enc))

\* records one stored label combination contributes
SamplesPerEntry == IF vec_metric = "counter" THEN 1 ELSE N + 2

\* the label combinations the vector stores
StoredLabels ==
    IF vec_kind = "Dense"
    THEN {decode_dense(k) : k \in DOMAIN dense}
    ELSE {decode(k) : k \in DOMAIN sparse}

\* C19: in every collect_into run, of a Metric or of a dense or sparse
\* MetricVec, write_type is called exactly once and before every
\* write_metric of the run, and write_metric is called once per sample: a
\* counter gives one per stored label combination, a histogram gives, per
\* stored label combination, one per threshold and then _sum and _count
CollectWritesTypeThenSamples ==
    /\ Len(counter_enc) = 2 * Len(counter_loads)
    /\ \A i \in 1..Len(counter_enc) :
           counter_enc[i].op =
               IF i % 2 = 1 THEN "write_type" ELSE "write_metric"
    /\ Len(flat_enc) <= N + 3
    /\ (fcoll_pc = "idle" /\ flat_enc # <<>>) => Len(flat_enc) = N + 3
    /\ fcoll_pc # "idle" => Len(flat_enc) >= 1
    /\ \A i \in 1..Len(flat_enc) :
           /\ flat_enc[i].op = IF i = 1 THEN "write_type" ELSE "write_metric"
           /\ i \in 2..(N + 1) =>
                  /\ flat_enc[i].suffix = "_bucket"
                  /\ flat_enc[i].le = flat_le[i - 1]
           /\ i = N + 2 => flat_enc[i].suffix = "_sum"
           /\ i = N + 3 => flat_enc[i].suffix = "_count"
    /\ Cardinality({i \in 1..Len(vec_enc) : vec_enc[i].op = "write_type"})
           = MaxVecCollects - vcoll_left
    /\ vcoll_pc # "idle" => vec_enc # <<>>
    /\ vec_enc # <<>> =>
           LET samples == VecRunSamples
               entries == Len(samples) \div SamplesPerEntry
               at(b, i) == samples[(b - 1) * SamplesPerEntry + i]
               visited == {at(b, 1).label : b \in 1..entries}
               waiting == {IF vec_kind = "Dense" THEN decode_dense(k)
                           ELSE decode(k) : k \in vcoll_todo}
           IN  /\ vec_enc[1].op = "write_type"
               /\ Len(samples) = entries * SamplesPerEntry
               /\ \A b \in 1..entries : \A i \in 1..SamplesPerEntry :
                      /\ at(b, i).op = "write_metric"
                      /\ at(b, i).kind = vec_metric
                      /\ at(b, i).label = at(b, 1).label
                      /\ vec_metric = "histogram" =>
                             /\ i <= N =>
                                    /\ at(b, i).value.suffix = "_bucket"
                                    /\ at(b, i).value.le = flat_le[i]
                             /\ i = N + 1 => at(b, i).value.suffix = "_sum"
                             /\ i = N + 2 => at(b, i).value.suffix = "_count"
               /\ Cardinality(visited) = entries
               /\ visited \subseteq StoredLabels
               /\ vcoll_pc = "walk" =>
                      /\ visited \cap waiting = {}
                      /\ visited \cup waiting = StoredLabels

\* C19 witness: a sparse histogram vector holding two label combinations, a
\* Histogram and a Counter have each been collected to the end
CollectWitness ==
    /\ vec_metric = "histogram"
    /\ vec_kind = "Sparse"
    /\ vcoll_pc = "idle"
    /\ Len(vec_enc) = 1 + 2 * (N + 2)
    /\ fcoll_pc = "idle"
    /\ Len(flat_enc) = N + 3
    /\ Len(counter_enc) >= 2

\* C21: HistogramStateInner::observe(bucket_index, value) changes exactly one
\* hit counter by exactly +1 and adds value to the sum: the bucket_index-th
\* bucket counter when bucket_index < N, the overflow counter for every other
\* bucket_index; all other bucket counters are left unchanged.
InnerObserveHitsOneCounter ==
    st_call.via # "none" =>
        /\ st_call.bucket < N =>
               /\ st_buckets = [st_before.buckets EXCEPT
                      ![st_call.bucket] = @ + 1]
               /\ st_inf = st_before.inf
        /\ st_call.bucket >= N =>
               /\ st_buckets = st_before.buckets
               /\ st_inf = st_before.inf + 1
        /\ from_bits(st_sum) = FAdd(from_bits(st_before.sum), st_call.x)

\* C22: on a sparse MetricVec, a get_metric call that begins when the map
\* already holds an entry for its label identity takes only the shared lock,
\* never the exclusive one; the exclusive lock is held only during the
\* insert-if-absent step, and never while a caller's callback runs.
SparseKnownEntrySharedOnly ==
    /\ \A t \in VThreads :
           /\ vknown[t] => /\ vpc[t] \in {"idle", "get", "hit", "panicked"}
                           /\ lock_writer # t
           /\ vpc[t] \in {"hit", "found"} =>
                  /\ t \in lock_readers
                  /\ lock_writer = None
    /\ lock_writer # None =>
           /\ lock_writer \in VThreads
           /\ vpc[lock_writer] = "insert"
           /\ lock_readers = {}

\* C22 witness: a call that began with its entry in the map is about to run
\* its callback under the shared lock while another call, which missed, is
\* waiting for the exclusive lock
SparseKnownEntryWitness ==
    \E t, u \in VThreads :
        /\ vknown[t] /\ vpc[t] = "hit"
        /\ vpc[u] = "miss"

\* C23: in the sparse miss path the lookup made after the exclusive lock is
\* released and the shared lock re-taken always finds the entry, under every
\* interleaving with other get_metric and collect_into calls, and each
\* get_metric call runs its callback exactly once, on the entry keyed by its
\* id.
SparseRereadFindsEntry ==
    [][ \A t \in VThreads :
            /\ vpc'[t] # "unwrap_failed"
            /\ (vpc[t] = "reread" /\ vpc'[t] # "reread") => vpc'[t] = "found"
            /\ (vpc[t] # "idle" /\ callbacks'[t] # callbacks[t]) =>
                   /\ vpc[t] \in {"get", "hit", "found"}
                   /\ callbacks[t] = 0 /\ callbacks'[t] = 1
                   /\ vpc'[t] = "idle"
                   /\ applied' = [applied EXCEPT ![vid[t]] = @ + vy[t]]
                   /\ vec_kind = "Sparse" =>
                          /\ vid[t] \in DOMAIN sparse
                          /\ sparse' = [sparse EXCEPT
                                 ![vid[t]] = FetchAdd(@, vy[t])]
            /\ (vpc[t] \notin {"idle", "panicked"} /\ vpc'[t] = "idle") =>
                   callbacks'[t] = 1
      ]_vars

\* C23 witness: a call whose first lookup missed lost the race for the
\* insert to another thread, found the entry at its second lookup and has run
\* its callback once
SparseRereadWitness ==
    \E t, u \in VThreads :
        /\ t # u
        /\ vec_kind = "Sparse"
        /\ vpc[t] = "idle" /\ callbacks[t] = 1 /\ ~vknown[t]
        /\ vpc[u] = "reread" /\ vid[u] = encode(vlabel[t])
        /\ applied[vlabel[t]] > 0

\* C24: a histogram collection never overlaps an in-progress observe of the
\* same histogram: while the collector reads the counters no observer is
\* between its bucket increment and the end of its sum update, so every
\* snapshot is consistent: its hit counters total the observations whose
\* values its sum holds.
CollectionExcludesObservers ==
    /\ fcoll_pc # "idle" => \A t \in HThreads : fpc[t] \notin {"load", "cas"}
    /\ (/\ fcoll_pc = "idle"
        /\ Len(flat_enc) = N + 3
        /\ flat_seen[INFINITY] = 0
        /\ \A t \in HThreads : fx[t] # INFINITY) =>
           /\ FlatBucketRecords[N].value = flat_enc[N + 3].value
           /\ (flat_enc[N + 3].value = 0) = (flat_enc[N + 2].value = 0)
    /\ \A h \in Hists :
           inner_writer[h] =>
               /\ inner_readers[h] = {}
               /\ \A t \in HThreads :
                      ih[t] = h => ipc[t] \notin {"bucket", "load", "cas"}
               /\ InnerHits(h) = InnerSeenTotal(h)
               /\ from_bits(inner_sum[h]) = InnerSeenSum(h)

\* C25: every started operation eventually returns: with finitely many
\* threads making finitely many inc, observe, get_metric and collect_into
\* calls, under fair scheduling no thread waits forever for a lock, neither
\* on the sparse map nor between observers and a collector, no lock stays
\* held, and every compare-and-swap retry loop on the sum terminates: from
\* some point on every thread and collector is outside its calls, for good.
EveryOperationReturns ==
    <>[](/\ \A t \in VThreads : vpc[t] \in {"idle", "panicked"}
         /\ vcoll_pc = "idle"
         /\ lock_writer = None
         /\ lock_readers = {}
         /\ \A t \in HThreads : ipc[t] \in {"idle", "panicked"}
         /\ \A h \in Hists : ~inner_writer[h] /\ inner_readers[h] = {})

\* C25 witness: two get_metric calls of different threads both missed the
\* same entry and returned, the collection of the map is over, and an
\* observer's compare-exchange is about to fail, another observer having
\* changed the sum
SparseAndSumContended ==
    /\ vec_kind = "Sparse"
    /\ VecDone
    /\ \E t, u \in VThreads :
           t # u /\ vlabel[t] = vlabel[u] /\ ~vknown[t] /\ ~vknown[u]
    /\ \E t \in HThreads :
           /\ ipc[t] = "cas"
           /\ iprev[t] # inner_sum[ih[t]]

\* C26: updating one label combination leaves all others unchanged: an inc,
\* inc_by or observe on label group A, in a dense or sparse MetricVec and
\* under any interleaving with updates to other groups, changes only the
\* metric state stored for A; the state of every other label group, the
\* metadata and the label set are unchanged.
UpdateTouchesOnlyItsLabel ==
    [][ /\ UNCHANGED <<cardinality, vec_kind, vec_metric, inner_le>>
        /\ DOMAIN dense' = DOMAIN dense
        /\ DOMAIN sparse \subseteq DOMAIN sparse'
        /\ \A i \in DOMAIN dense :
               dense'[i] # dense[i] =>
                   \E t \in VThreads :
                       /\ vpc[t] = "get" /\ vpc'[t] = "idle"
                       /\ i = encode_dense(encode(vlabel[t]))
                       /\ \A j \in DOMAIN dense \ {i} : dense'[j] = dense[j]
        /\ \A k \in DOMAIN sparse' :
               (k \notin DOMAIN sparse \/ sparse'[k] # sparse[k]) =>
                   \E t \in VThreads :
                       /\ vpc[t] \in {"hit", "found", "insert"}
                       /\ vpc'[t] # vpc[t]
                       /\ k = encode(vlabel[t])
                       /\ \A j \in DOMAIN sparse' \ {k} :
                              j \in DOMAIN sparse /\ sparse'[j] = sparse[j]
        /\ \A h \in Hists :
               (<<inner_buckets[h], inner_inf[h], inner_sum[h]>>' #
                    <<inner_buckets[h], inner_inf[h], inner_sum[h]>>) =>
                   \E t \in HThreads :
                       /\ ipc[t] \in {"bucket", "cas"}
                       /\ ih[t] = h
                       /\ \A g \in Hists \ {h} :
                              UNCHANGED <<inner_buckets[g], inner_inf[g],
                                          inner_sum[g]>>
        /\ \A t \in HThreads :
               (iops_left'[t] # iops_left[t] /\ icall'[t].op = "observe"
                    /\ ipc'[t] = "bucket") => ih'[t] = icall'[t].label
      ]_vars

\* C26 witness: two calls on different label groups of a sparse MetricVec
\* hold the shared lock together, each about to update its own entry, with
\* increments already stored for both groups
UpdateTouchesOnlyItsLabelWitness ==
    \E t, u \in VThreads :
        /\ vlabel[t] # vlabel[u]
        /\ vpc[t] \in {"hit", "found"} /\ vpc[u] \in {"hit", "found"}
        /\ vy[t] > 0 /\ vy[u] > 0
        /\ applied[vlabel[t]] > 0 /\ applied[vlabel[u]] > 0

=============================================================================
